---- MODULE Spec2Model ----
(***************************************************************************)
(* Generation of LWE bootstrap keys (plain and seeded, sequential and      *)
(* parallel), after tfhe/src/core_crypto/algorithms/                       *)
(* lwe_bootstrap_key_generation.rs.                                        *)
(*                                                                         *)
(* The four generators and the four allocation helpers are modelled from   *)
(* the source.  The primitives they call (the forkable random stream, the  *)
(* constant GGSW encryption, the containers) live outside that file; they  *)
(* are modelled from the written specification, over a scalar of           *)
(* ScalarBits bits, and are marked as such where they are defined.         *)
(*                                                                         *)
(* The second part of the module is the splitting of encrypted strings,    *)
(* after tfhe/src/strings/server_key/pattern/split/mod.rs.  Encrypted      *)
(* values are modelled by the cleartexts they encrypt.                     *)
(***************************************************************************)
EXTENDS Integers, Sequences, FiniteSets, TLC

(***************************************************************************)
(* Bounds of the model.                                                    *)
(***************************************************************************)
\* width of the ciphertext scalar; the native modulus is 2^ScalarBits
ScalarBits == 4
\* largest input LWE dimension (number of rows of a key)
MaxLweDim == 3
\* number of bytes one lane of a freshly seeded stream can hand out
StreamCapacity == 48
\* longest string that is split, longest pattern, most nulls of padding
MaxStrLen == 3
MaxPatLen == 2
MaxPadding == 2

Q == 2 ^ ScalarBits

\* seed values a caller or the seeder can produce
Seeds == {1, 2}

\* decomposition parameters (base log, level count) a caller can ask for
DecompParams ==
    { [decomp_base_log |-> 1, decomp_level_count |-> 2],
      [decomp_base_log |-> 2, decomp_level_count |-> 1] }

\* binary input LWE secret keys of every dimension up to MaxLweDim
LweSecretKeys == UNION { [1..n -> {0, 1}] : n \in 1..MaxLweDim }

\* output GLWE secret keys: dimension, polynomial size, binary coefficients
GlweSecretKeys ==
    { [glwe_dimension |-> 1, polynomial_size |-> 2, data |-> <<1, 0>>],
      [glwe_dimension |-> 1, polynomial_size |-> 2, data |-> <<1, 1>>],
      [glwe_dimension |-> 1, polynomial_size |-> 4, data |-> <<1, 0, 1, 1>>] }

(***************************************************************************)
(* Small arithmetic helpers.                                               *)
(***************************************************************************)
RECURSIVE SeqSum(_)
SeqSum(s) == IF s = <<>> THEN 0 ELSE Head(s) + SeqSum(Tail(s))

\* GlweDimension::to_glwe_size
to_glwe_size(glwe_dimension) == glwe_dimension + 1

\* CastInto between scalar widths: keeps the low ScalarBits bits
cast_into(x) == x % Q

(***************************************************************************)
(* Forkable random stream (spec 4.1, design note on counter-based          *)
(* derivation).  A stream is a seed and, for each of its two lanes (mask   *)
(* and noise), a window [pos, bound) of the counter space it may still     *)
(* hand out.  The byte at a counter value is a function of the seed, the   *)
(* lane and the counter.                                                   *)
(***************************************************************************)
\* lane 0 feeds the masks, lane 1 the noise
Byte(seed, lane, p) == (seed * 7 + lane * 3 + p * 5 + p * p * seed + 1) % Q

\* a fresh stream reseeded from exactly `seed` (spec 4.4)
StreamFromSeed(seed) ==
    [seed |-> seed,
     mask_pos |-> 0, mask_bound |-> StreamCapacity,
     noise_pos |-> 0, noise_bound |-> StreamCapacity]

\* EncryptionRandomGenerator::new(seed, seeder): the stream reseeded from
\* `seed`, and the seeder as the constructor leaves it.  The specification
\* derives the whole stream from the seed, so the seeder handed to the
\* constructor is returned as it came.
EncryptionRandomGenerator_new(seed, seeder_state) ==
    [generator |-> StreamFromSeed(seed), seeder |-> seeder_state]

\* Seeder::seed: the seed drawn in seeder state k
seeder_seed(k) == (k % Cardinality(Seeds)) + 1

\* output.encryption_fork_config(Uniform, noise_distribution): one child per
\* row, each sized for one constant GGSW encryption
encryption_fork_config(output) ==
    LET g == output.glwe_size
        N == output.polynomial_size
        L == output.decomp_level_count
    IN [children |-> output.input_lwe_dimension,
        mask_bytes |-> L * g * (g - 1) * N,
        noise_bytes |-> L * g * N]

ForkFits(gen, cfg) ==
    /\ gen.mask_pos + cfg.children * cfg.mask_bytes <= gen.mask_bound
    /\ gen.noise_pos + cfg.children * cfg.noise_bytes <= gen.noise_bound

\* the parent stream once the children's windows have been carved out
ForkParent(gen, cfg) ==
    [gen EXCEPT !.mask_pos = @ + cfg.children * cfg.mask_bytes,
                !.noise_pos = @ + cfg.children * cfg.noise_bytes]

\* sequential fork: the children are split off the front one after another
RECURSIVE ForkChildren(_, _, _)
ForkChildren(gen, cfg, k) ==
    IF k = 0 THEN <<>>
    ELSE LET child == [gen EXCEPT !.mask_bound = gen.mask_pos + cfg.mask_bytes,
                                  !.noise_bound = gen.noise_pos + cfg.noise_bytes]
             rest == [gen EXCEPT !.mask_pos = @ + cfg.mask_bytes,
                                 !.noise_pos = @ + cfg.noise_bytes]
         IN <<child>> \o ForkChildren(rest, cfg, k - 1)

\* try_fork_from_config: Err(InsufficientEntropyConfiguration) when the
\* request does not fit in what is left of the stream
try_fork_from_config(gen, cfg) ==
    IF ForkFits(gen, cfg)
    THEN [ok |-> TRUE, children |-> ForkChildren(gen, cfg, cfg.children),
          parent |-> ForkParent(gen, cfg)]
    ELSE [ok |-> FALSE, children |-> <<>>, parent |-> gen]

\* faulty variant of par_try_fork_from_config: the children are laid out
\* from the end of the carved-out region backwards
par_try_fork_in_reverse_order(gen, cfg) ==
    IF ForkFits(gen, cfg)
    THEN [ok |-> TRUE,
          children |->
            [i \in 1..cfg.children |->
               [seed |-> gen.seed,
                mask_pos |-> gen.mask_pos + (cfg.children - i) * cfg.mask_bytes,
                mask_bound |-> gen.mask_pos + (cfg.children - i + 1) * cfg.mask_bytes,
                noise_pos |-> gen.noise_pos + (cfg.children - i) * cfg.noise_bytes,
                noise_bound |-> gen.noise_pos + (cfg.children - i + 1) * cfg.noise_bytes]],
          parent |-> ForkParent(gen, cfg)]
    ELSE [ok |-> FALSE, children |-> <<>>, parent |-> gen]

\* par_try_fork_from_config: every child is derived directly from its index
par_try_fork_from_config(gen, cfg) ==
    IF ForkFits(gen, cfg)
    THEN [ok |-> TRUE,
          children |->
            [i \in 1..cfg.children |->
               [seed |-> gen.seed,
                mask_pos |-> gen.mask_pos + (i - 1) * cfg.mask_bytes,
                mask_bound |-> gen.mask_pos + i * cfg.mask_bytes,
                noise_pos |-> gen.noise_pos + (i - 1) * cfg.noise_bytes,
                noise_bound |-> gen.noise_pos + i * cfg.noise_bytes]],
          parent |-> ForkParent(gen, cfg)]
    ELSE [ok |-> FALSE, children |-> <<>>, parent |-> gen]

(***************************************************************************)
(* Constant GGSW encryption (external collaborator, spec 2 and 6).  A GGSW *)
(* row is a flat sequence: for each level, for each of the glwe_size GLWE  *)
(* ciphertexts of the level matrix, glwe_size - 1 mask polynomials and one *)
(* body polynomial, polynomial_size coefficients each.                     *)
(***************************************************************************)
\* noise sample in {-1, 0, 1} from one byte of the noise lane
NoiseOf(b) == (b % 3) - 1

\* coefficient j of polynomial p of the GLWE secret key (0-based)
SkCoef(sk, p, j) == sk.data[p * sk.polynomial_size + j + 1]

\* mask coefficient j of polynomial p of GLWE ciphertext c of the row
MaskCoef(gen, g, N, c, p, j) ==
    Byte(gen.seed, 0, gen.mask_pos + c * (g - 1) * N + p * N + j)

NoiseCoef(gen, N, c, j) ==
    NoiseOf(Byte(gen.seed, 1, gen.noise_pos + c * N + j))

\* coefficient k of sum_p mask_p * sk_p in Z[X]/(X^N + 1); mask holds the
\* glwe_size - 1 mask polynomials one after another
MaskTimesKey(sk, mask, g, N, k) ==
    SeqSum([t \in 1..((g - 1) * N) |->
              LET p == (t - 1) \div N
                  i == (t - 1) % N
                  j == (k - i) % N
              IN mask[t] * SkCoef(sk, p, j) * (IF i <= k THEN 1 ELSE -1)])

\* scaling factor of level l (1-based): q / B^l
LevelFactor(base_log, l) == Q \div (2 ^ (base_log * l))

\* plaintext coefficient k of GLWE ciphertext r (0-based) of level l: the
\* last one encrypts m * factor, the others -s_r * m * factor
GgswPlain(sk, m, base_log, g, l, r, k) ==
    LevelFactor(base_log, l) * m *
        (IF r = g - 1 THEN (IF k = 0 THEN 1 ELSE 0) ELSE 0 - SkCoef(sk, r, k))

BodyCoef(sk, m, gen, base_log, g, N, l, r, k) ==
    LET c == (l - 1) * g + r
        mask == [t \in 1..((g - 1) * N) |->
                    MaskCoef(gen, g, N, c, (t - 1) \div N, (t - 1) % N)]
    IN (MaskTimesKey(sk, mask, g, N, k) + NoiseCoef(gen, N, c, k)
          + GgswPlain(sk, m, base_log, g, l, r, k)) % Q

ggsw_ciphertext_size(g, N, L) == g * g * L * N

seeded_ggsw_ciphertext_size(g, N, L) == g * L * N

\* encrypt_constant_ggsw_ciphertext (and its parallel variant): the row
\* that encrypts cleartext m under sk, drawing from substream gen
encrypt_constant_ggsw_ciphertext(sk, m, gen, base_log, L) ==
    LET g == to_glwe_size(sk.glwe_dimension)
        N == sk.polynomial_size
    IN [e \in 1..ggsw_ciphertext_size(g, N, L) |->
          LET l == ((e - 1) \div (g * g * N)) + 1
              w == (e - 1) % (g * g * N)
              r == w \div (g * N)
              p == (w % (g * N)) \div N
              k == w % N
          IN IF p < g - 1
             THEN MaskCoef(gen, g, N, (l - 1) * g + r, p, k)
             ELSE BodyCoef(sk, m, gen, base_log, g, N, l, r, k)]

\* encrypt_constant_seeded_ggsw_ciphertext_with_pre_seeded_generator (and
\* its parallel variant): same draws, only the bodies are stored
encrypt_constant_seeded_ggsw_ciphertext(sk, m, gen, base_log, L) ==
    LET g == to_glwe_size(sk.glwe_dimension)
        N == sk.polynomial_size
    IN [e \in 1..seeded_ggsw_ciphertext_size(g, N, L) |->
          LET l == ((e - 1) \div (g * N)) + 1
              r == ((e - 1) % (g * N)) \div N
              k == (e - 1) % N
          IN BodyCoef(sk, m, gen, base_log, g, N, l, r, k)]

\* decrypt_constant_ggsw_ciphertext: decrypt the last GLWE ciphertext of
\* the first level matrix and round its constant coefficient
decrypt_constant_ggsw_ciphertext(sk, ggsw, base_log) ==
    LET g == to_glwe_size(sk.glwe_dimension)
        N == sk.polynomial_size
        base == (g - 1) * g * N
        mask == [t \in 1..((g - 1) * N) |-> ggsw[base + t]]
        body0 == ggsw[base + (g - 1) * N + 1]
        phase == (body0 - MaskTimesKey(sk, mask, g, N, 0)) % Q
        f == LevelFactor(base_log, 1)
    IN ((phase + (f \div 2)) \div f) % (2 ^ base_log)

(***************************************************************************)
(* Containers.                                                             *)
(***************************************************************************)
\* LweBootstrapKey::new(fill_with, glwe_size, polynomial_size, decomp_base_log,
\* decomp_level_count, input_lwe_dimension, ciphertext_modulus)
LweBootstrapKey_new(fill, g, N, base_log, L, n, modulus) ==
    [kind |-> "plain",
     input_lwe_dimension |-> n, glwe_size |-> g, polynomial_size |-> N,
     decomp_base_log |-> base_log, decomp_level_count |-> L,
     ciphertext_modulus |-> modulus, compression_seed |-> 0,
     rows |-> [i \in 1..n |-> [e \in 1..ggsw_ciphertext_size(g, N, L) |-> fill]]]

\* SeededLweBootstrapKey::new(fill_with, glwe_size, polynomial_size,
\* decomp_base_log, decomp_level_count, input_lwe_dimension,
\* compression_seed, ciphertext_modulus)
SeededLweBootstrapKey_new(fill, g, N, base_log, L, n, seed, modulus) ==
    [kind |-> "seeded",
     input_lwe_dimension |-> n, glwe_size |-> g, polynomial_size |-> N,
     decomp_base_log |-> base_log, decomp_level_count |-> L,
     ciphertext_modulus |-> modulus, compression_seed |-> seed,
     rows |-> [i \in 1..n |->
                 [e \in 1..seeded_ggsw_ciphertext_size(g, N, L) |-> fill]]]

\* SeededLweBootstrapKey expansion: the masks are drawn again from a stream
\* reseeded from the stored compression seed and forked as at generation,
\* the bodies are the stored ones
decompress_seeded_lwe_bootstrap_key(key) ==
    LET g == key.glwe_size
        N == key.polynomial_size
        L == key.decomp_level_count
        fork == try_fork_from_config(
                    StreamFromSeed(key.compression_seed),
                    encryption_fork_config(key))
    IN [kind |-> "plain",
        input_lwe_dimension |-> key.input_lwe_dimension,
        glwe_size |-> g, polynomial_size |-> N,
        decomp_base_log |-> key.decomp_base_log,
        decomp_level_count |-> L,
        ciphertext_modulus |-> key.ciphertext_modulus,
        compression_seed |-> 0,
        rows |-> [i \in 1..key.input_lwe_dimension |->
                    [e \in 1..ggsw_ciphertext_size(g, N, L) |->
                       LET c == (e - 1) \div (g * N)
                           p == ((e - 1) % (g * N)) \div N
                           k == (e - 1) % N
                       IN IF p < g - 1
                          THEN MaskCoef(fork.children[i], g, N, c, p, k)
                          ELSE key.rows[i][c * N + k + 1]]]]

(***************************************************************************)
(* State.                                                                  *)
(***************************************************************************)
VARIABLES
    input_lwe_secret_key,   \* the caller's input LWE secret key
    output_glwe_secret_key, \* the caller's output GLWE secret key
    decomp,                 \* the decomposition parameters the caller uses
    generator,              \* the caller's EncryptionRandomGenerator
    seeder,                 \* the caller's seeder: number of seeds drawn
    output,                 \* the bootstrap key container of the current call
    pc,                     \* "idle", "running", "returned" or "panicked"
    panic,                  \* the panic message of an aborted call
    call,                   \* the call in progress or last made
    prev,                   \* the call made before it, if any
    calls_left,             \* calls the caller still makes
    threads                 \* the calls that run concurrently, one a thread

VARIABLES
    str,                    \* the encrypted string handed to the split layer
    pat,                    \* the pattern, clear or encrypted
    split_call,             \* the split function called and its arguments
    split_iter,             \* the iterator the call built
    split_ret,              \* the value the call returned
    split_panic,            \* the panic message of the call
    split_log               \* what the next calls on the iterator returned

split_vars ==
    <<str, pat, split_call, split_iter, split_ret, split_panic, split_log>>

vars == <<input_lwe_secret_key, output_glwe_secret_key, decomp, generator,
          seeder, output, pc, panic, call, prev, calls_left, threads,
          str, pat, split_call, split_iter, split_ret, split_panic, split_log>>

NoKey == [kind |-> "none"]

NoCall == [fn |-> "none"]

\* panic messages
MismatchedLweDimension == "Mismatched LweDimension between input LWE secret key and LWE bootstrap key."

MismatchedGlweSize == "Mismatched GlweSize between output GLWE secret key and LWE bootstrap key."

MismatchedPolynomialSize == "Mismatched PolynomialSize between output GLWE secret key and LWE bootstrap key."

UnwrapForkError == "called Result::unwrap() on an Err value: InsufficientEntropyConfiguration"

MismatchMessages ==
    {MismatchedLweDimension, MismatchedGlweSize, MismatchedPolynomialSize}

\* what a generator has done when it panics before its loop, or reaches it:
\* rng is the caller's generator (plain generators) or seeder (seeded ones)
\* as the generator leaves it
Aborted(msg, out, rng) ==
    [status |-> "panicked", panic |-> msg, gen_iter |-> <<>>,
     output |-> out, rng |-> rng]

Forked(children, out, rng) ==
    [status |-> "running", panic |-> "", gen_iter |-> children,
     output |-> out, rng |-> rng]

(***************************************************************************)
(* The four generators: the part that runs before the rows are encrypted   *)
(* (the three assertions, the creation of the stream, the fork) and the    *)
(* body of the loop for one row.                                           *)
(***************************************************************************)
\* faulty variant of PreconditionPanic: the LweDimension assertion is missing
PreconditionPanic_no_lwe_dimension(in_key, out_key, out) ==
    IF out.glwe_size # to_glwe_size(out_key.glwe_dimension)
    THEN MismatchedGlweSize
    ELSE IF out.polynomial_size # out_key.polynomial_size
    THEN MismatchedPolynomialSize
    ELSE ""

\* faulty variant of PreconditionPanic: the PolynomialSize assertion is
\* missing
PreconditionPanic_no_polynomial_size(in_key, out_key, out) ==
    IF out.input_lwe_dimension # Len(in_key)
    THEN MismatchedLweDimension
    ELSE IF out.glwe_size # to_glwe_size(out_key.glwe_dimension)
    THEN MismatchedGlweSize
    ELSE ""

\* the three assert!s shared, verbatim, by the four generators
PreconditionPanic(in_key, out_key, out) ==
    IF out.input_lwe_dimension # Len(in_key)
    THEN MismatchedLweDimension
    ELSE IF out.glwe_size # to_glwe_size(out_key.glwe_dimension)
    THEN MismatchedGlweSize
    ELSE IF out.polynomial_size # out_key.polynomial_size
    THEN MismatchedPolynomialSize
    ELSE ""

\* faulty variant of generate_lwe_bootstrap_key: a failed fork is taken as
\* a fork with no substream instead of being unwrapped
generate_ignoring_fork_error(in_key, out_key, out, gen) ==
    LET msg == PreconditionPanic(in_key, out_key, out)
        fork == try_fork_from_config(gen, encryption_fork_config(out))
    IN IF msg # "" THEN Aborted(msg, out, gen)
       ELSE Forked(fork.children, out, fork.parent)

\* faulty variant of generate_lwe_bootstrap_key: the substreams are forked
\* off a copy, the caller's generator stays where it was
generate_without_advancing(in_key, out_key, out, gen) ==
    LET msg == PreconditionPanic(in_key, out_key, out)
        fork == try_fork_from_config(gen, encryption_fork_config(out))
    IN IF msg # "" THEN Aborted(msg, out, gen)
       ELSE IF ~fork.ok THEN Aborted(UnwrapForkError, out, gen)
       ELSE Forked(fork.children, out, gen)

generate_lwe_bootstrap_key(in_key, out_key, out, gen) ==
    LET msg == PreconditionPanic(in_key, out_key, out)
        fork == try_fork_from_config(gen, encryption_fork_config(out))
    IN IF msg # "" THEN Aborted(msg, out, gen)
       ELSE IF ~fork.ok THEN Aborted(UnwrapForkError, out, gen)
       ELSE Forked(fork.children, out, fork.parent)

par_generate_lwe_bootstrap_key(in_key, out_key, out, gen) ==
    LET msg == PreconditionPanic(in_key, out_key, out)
        fork == par_try_fork_from_config(gen, encryption_fork_config(out))
    IN IF msg # "" THEN Aborted(msg, out, gen)
       ELSE IF ~fork.ok THEN Aborted(UnwrapForkError, out, gen)
       ELSE Forked(fork.children, out, fork.parent)

\* faulty variant of generate_seeded_lwe_bootstrap_key: the stream is
\* created from a seed other than the stored compression seed
generate_seeded_from_other_seed(in_key, out_key, out, noise_seeder) ==
    LET msg == PreconditionPanic(in_key, out_key, out)
        made == EncryptionRandomGenerator_new(
                    (out.compression_seed % Cardinality(Seeds)) + 1,
                    noise_seeder)
        fork == try_fork_from_config(made.generator, encryption_fork_config(out))
    IN IF msg # "" THEN Aborted(msg, out, noise_seeder)
       ELSE IF ~fork.ok THEN Aborted(UnwrapForkError, out, made.seeder)
       ELSE Forked(fork.children, out, made.seeder)

generate_seeded_lwe_bootstrap_key(in_key, out_key, out, noise_seeder) ==
    LET msg == PreconditionPanic(in_key, out_key, out)
        made == EncryptionRandomGenerator_new(out.compression_seed, noise_seeder)
        fork == try_fork_from_config(made.generator, encryption_fork_config(out))
    IN IF msg # "" THEN Aborted(msg, out, noise_seeder)
       ELSE IF ~fork.ok THEN Aborted(UnwrapForkError, out, made.seeder)
       ELSE Forked(fork.children, out, made.seeder)

par_generate_seeded_lwe_bootstrap_key(in_key, out_key, out, noise_seeder) ==
    LET msg == PreconditionPanic(in_key, out_key, out)
        made == EncryptionRandomGenerator_new(out.compression_seed, noise_seeder)
        fork == par_try_fork_from_config(made.generator, encryption_fork_config(out))
    IN IF msg # "" THEN Aborted(msg, out, noise_seeder)
       ELSE IF ~fork.ok THEN Aborted(UnwrapForkError, out, made.seeder)
       ELSE Forked(fork.children, out, made.seeder)

\* faulty variant of ZipIndexes: the zip stops one element short
ZipIndexes_one_short(out, in_key, gen_iter) ==
    { i \in 1..Len(out.rows) : i < Len(in_key) /\ i <= Len(gen_iter) }

\* the indexes the triple zip (rows, key elements, substreams) runs over
ZipIndexes(out, in_key, gen_iter) ==
    { i \in 1..Len(out.rows) : i <= Len(in_key) /\ i <= Len(gen_iter) }

\* faulty variant of PlainRow: the key elements are taken in reverse order
PlainRow_reversed_key(in_key, out_key, out, gen_iter, i) ==
    [out EXCEPT !.rows[i] =
        encrypt_constant_ggsw_ciphertext(out_key,
            cast_into(in_key[Len(in_key) + 1 - i]),
            gen_iter[i], out.decomp_base_log, out.decomp_level_count)]

\* one iteration of the loop of a plain generator: row i is encrypted from
\* key element i with substream i
PlainRow(in_key, out_key, out, gen_iter, i) ==
    [out EXCEPT !.rows[i] =
        encrypt_constant_ggsw_ciphertext(out_key, cast_into(in_key[i]),
            gen_iter[i], out.decomp_base_log, out.decomp_level_count)]

\* faulty variant of SeededRow: row i draws from the substream after its own
SeededRow_from_next_substream(in_key, out_key, out, gen_iter, i) ==
    [out EXCEPT !.rows[i] =
        encrypt_constant_seeded_ggsw_ciphertext(out_key, cast_into(in_key[i]),
            gen_iter[(i % Len(gen_iter)) + 1],
            out.decomp_base_log, out.decomp_level_count)]

\* one iteration of the loop of a seeded generator
SeededRow(in_key, out_key, out, gen_iter, i) ==
    [out EXCEPT !.rows[i] =
        encrypt_constant_seeded_ggsw_ciphertext(out_key, cast_into(in_key[i]),
            gen_iter[i], out.decomp_base_log, out.decomp_level_count)]

(***************************************************************************)
(* The containers a caller hands to a generator: allocated zero-filled     *)
(* with its own parameters, which agree with the secret keys or differ     *)
(* from them in one dimension, or the container of the previous call.      *)
(***************************************************************************)
ContainerShapes(in_key, out_key) ==
    LET n == Len(in_key)
        g == to_glwe_size(out_key.glwe_dimension)
        N == out_key.polynomial_size
    IN { <<n, g, N>>, <<n + 1, g, N>>, <<n, g + 1, N>>, <<n, g, 2 * N>> }

PlainContainers ==
    { LweBootstrapKey_new(0, sh[2], sh[3], decomp.decomp_base_log,
                          decomp.decomp_level_count, sh[1], Q) :
        sh \in ContainerShapes(input_lwe_secret_key, output_glwe_secret_key) }
    \cup (IF output.kind = "plain" THEN {output} ELSE {})

SeededContainers ==
    { SeededLweBootstrapKey_new(0, x[1][2], x[1][3], decomp.decomp_base_log,
                                decomp.decomp_level_count, x[1][1], x[2], Q) :
        x \in ContainerShapes(input_lwe_secret_key, output_glwe_secret_key)
                \X Seeds }
    \cup (IF output.kind = "seeded" THEN {output} ELSE {})

(***************************************************************************)
(* Actions.                                                                *)
(***************************************************************************)
CanCall == pc # "running" /\ calls_left > 0

\* what the caller keeps of the call that ended before this one
Finished ==
    IF pc = "idle" THEN NoCall
    ELSE [fn |-> call.fn, core |-> call.core, pc |-> pc, panic |-> panic, output |-> output,
          output0 |-> call.output0, generator0 |-> call.generator0,
          seeder0 |-> call.seeder0, generator |-> generator,
          gen_iter |-> call.gen_iter]

\* the caller enters fn, which runs generator core on container out0; res
\* is what the generator did up to and including its fork
Enter(fn, core, out0, res) ==
    /\ pc' = res.status
    /\ panic' = res.panic
    /\ output' = res.output
    /\ IF out0.kind = "plain"
       THEN generator' = res.rng /\ seeder' = seeder
       ELSE seeder' = res.rng /\ generator' = generator
    /\ call' = [fn |-> fn, core |-> core, gen_iter |-> res.gen_iter,
                done |-> {}, output0 |-> out0, generator0 |-> generator,
                seeder0 |-> seeder]
    /\ prev' = Finished
    /\ calls_left' = calls_left - 1
    /\ UNCHANGED <<input_lwe_secret_key, output_glwe_secret_key, decomp,
                   threads>>
    /\ UNCHANGED split_vars

Call_generate_lwe_bootstrap_key ==
    /\ CanCall
    /\ \E out \in PlainContainers :
         Enter("generate_lwe_bootstrap_key", "generate_lwe_bootstrap_key", out,
               generate_lwe_bootstrap_key(input_lwe_secret_key,
                   output_glwe_secret_key, out, generator))

Call_par_generate_lwe_bootstrap_key ==
    /\ CanCall
    /\ \E out \in PlainContainers :
         Enter("par_generate_lwe_bootstrap_key", "par_generate_lwe_bootstrap_key", out,
               par_generate_lwe_bootstrap_key(input_lwe_secret_key,
                   output_glwe_secret_key, out, generator))

Call_generate_seeded_lwe_bootstrap_key ==
    /\ CanCall
    /\ \E out \in SeededContainers :
         Enter("generate_seeded_lwe_bootstrap_key", "generate_seeded_lwe_bootstrap_key", out,
               generate_seeded_lwe_bootstrap_key(input_lwe_secret_key,
                   output_glwe_secret_key, out, seeder))

Call_par_generate_seeded_lwe_bootstrap_key ==
    /\ CanCall
    /\ \E out \in SeededContainers :
         Enter("par_generate_seeded_lwe_bootstrap_key", "par_generate_seeded_lwe_bootstrap_key", out,
               par_generate_seeded_lwe_bootstrap_key(input_lwe_secret_key,
                   output_glwe_secret_key, out, seeder))

(***************************************************************************)
(* The four allocation helpers: allocate a zero-filled container from the  *)
(* secret keys and the supplied parameters, run the core generator on it.  *)
(***************************************************************************)
\* faulty variant of allocate_and_generate_new_lwe_bootstrap_key: the
\* container is allocated with the GLWE dimension for GLWE size
allocate_with_glwe_dimension(in_key, out_key, base_log, L, modulus, gen) ==
    LET bsk == LweBootstrapKey_new(0, out_key.glwe_dimension,
                   out_key.polynomial_size, base_log, L, Len(in_key), modulus)
    IN [allocated |-> bsk,
        res |-> generate_lwe_bootstrap_key(in_key, out_key, bsk, gen)]

allocate_and_generate_new_lwe_bootstrap_key(in_key, out_key, base_log, L, modulus, gen) ==
    LET bsk == LweBootstrapKey_new(0, to_glwe_size(out_key.glwe_dimension),
                   out_key.polynomial_size, base_log, L, Len(in_key), modulus)
    IN [allocated |-> bsk,
        res |-> generate_lwe_bootstrap_key(in_key, out_key, bsk, gen)]

\* faulty variant of par_allocate_and_generate_new_lwe_bootstrap_key: the
\* input dimension of the container is taken from the output GLWE key
par_allocate_with_dimension_of_output_key(in_key, out_key, base_log, L, modulus, gen) ==
    LET bsk == LweBootstrapKey_new(0, to_glwe_size(out_key.glwe_dimension),
                   out_key.polynomial_size, base_log, L,
                   out_key.polynomial_size, modulus)
    IN [allocated |-> bsk,
        res |-> par_generate_lwe_bootstrap_key(in_key, out_key, bsk, gen)]

par_allocate_and_generate_new_lwe_bootstrap_key(in_key, out_key, base_log, L, modulus, gen) ==
    LET bsk == LweBootstrapKey_new(0, to_glwe_size(out_key.glwe_dimension),
                   out_key.polynomial_size, base_log, L, Len(in_key), modulus)
    IN [allocated |-> bsk,
        res |-> par_generate_lwe_bootstrap_key(in_key, out_key, bsk, gen)]

\* faulty variant of allocate_and_generate_new_seeded_lwe_bootstrap_key: the
\* seed stored in the key is not the one drawn from the seeder
allocate_seeded_storing_other_seed(in_key, out_key, base_log, L, modulus, noise_seeder) ==
    LET bsk == SeededLweBootstrapKey_new(0, to_glwe_size(out_key.glwe_dimension),
                   out_key.polynomial_size, base_log, L, Len(in_key),
                   (seeder_seed(noise_seeder) % Cardinality(Seeds)) + 1, modulus)
    IN [allocated |-> bsk,
        res |-> generate_seeded_lwe_bootstrap_key(in_key, out_key, bsk,
                                                  noise_seeder + 1)]

\* faulty variant of allocate_and_generate_new_seeded_lwe_bootstrap_key: a
\* seed is drawn and dropped before the compression seed is drawn
allocate_seeded_drawing_twice(in_key, out_key, base_log, L, modulus, noise_seeder) ==
    LET bsk == SeededLweBootstrapKey_new(0, to_glwe_size(out_key.glwe_dimension),
                   out_key.polynomial_size, base_log, L, Len(in_key),
                   seeder_seed(noise_seeder + 1), modulus)
    IN [allocated |-> bsk,
        res |-> generate_seeded_lwe_bootstrap_key(in_key, out_key, bsk,
                                                  noise_seeder + 2)]

allocate_and_generate_new_seeded_lwe_bootstrap_key(in_key, out_key, base_log, L, modulus, noise_seeder) ==
    LET bsk == SeededLweBootstrapKey_new(0, to_glwe_size(out_key.glwe_dimension),
                   out_key.polynomial_size, base_log, L, Len(in_key),
                   seeder_seed(noise_seeder), modulus)
    IN [allocated |-> bsk,
        res |-> generate_seeded_lwe_bootstrap_key(in_key, out_key, bsk,
                                                  noise_seeder + 1)]

par_allocate_and_generate_new_seeded_lwe_bootstrap_key(in_key, out_key, base_log, L, modulus, noise_seeder) ==
    LET bsk == SeededLweBootstrapKey_new(0, to_glwe_size(out_key.glwe_dimension),
                   out_key.polynomial_size, base_log, L, Len(in_key),
                   seeder_seed(noise_seeder), modulus)
    IN [allocated |-> bsk,
        res |-> par_generate_seeded_lwe_bootstrap_key(in_key, out_key, bsk,
                                                      noise_seeder + 1)]

EnterHelper(fn, core, h) == Enter(fn, core, h.allocated, h.res)

Call_allocate_and_generate_new_lwe_bootstrap_key ==
    /\ CanCall
    /\ EnterHelper("allocate_and_generate_new_lwe_bootstrap_key",
                   "generate_lwe_bootstrap_key",
           allocate_and_generate_new_lwe_bootstrap_key(input_lwe_secret_key,
               output_glwe_secret_key, decomp.decomp_base_log,
               decomp.decomp_level_count, Q, generator))

Call_par_allocate_and_generate_new_lwe_bootstrap_key ==
    /\ CanCall
    /\ EnterHelper("par_allocate_and_generate_new_lwe_bootstrap_key",
                   "par_generate_lwe_bootstrap_key",
           par_allocate_and_generate_new_lwe_bootstrap_key(input_lwe_secret_key,
               output_glwe_secret_key, decomp.decomp_base_log,
               decomp.decomp_level_count, Q, generator))

Call_allocate_and_generate_new_seeded_lwe_bootstrap_key ==
    /\ CanCall
    /\ EnterHelper("allocate_and_generate_new_seeded_lwe_bootstrap_key",
                   "generate_seeded_lwe_bootstrap_key",
           allocate_and_generate_new_seeded_lwe_bootstrap_key(input_lwe_secret_key,
               output_glwe_secret_key, decomp.decomp_base_log,
               decomp.decomp_level_count, Q, seeder))

Call_par_allocate_and_generate_new_seeded_lwe_bootstrap_key ==
    /\ CanCall
    /\ EnterHelper("par_allocate_and_generate_new_seeded_lwe_bootstrap_key",
                   "par_generate_seeded_lwe_bootstrap_key",
           par_allocate_and_generate_new_seeded_lwe_bootstrap_key(input_lwe_secret_key,
               output_glwe_secret_key, decomp.decomp_base_log,
               decomp.decomp_level_count, Q, seeder))

(***************************************************************************)
(* The loops.  A sequential generator encrypts the rows in index order; a  *)
(* parallel generator runs one task per row, in any order.                 *)
(***************************************************************************)
Pending == ZipIndexes(output, input_lwe_secret_key, call.gen_iter) \ call.done

NextRow == CHOOSE i \in Pending : \A j \in Pending : i <= j

\* faulty variant of RowDone: the key element the row was encrypted from is
\* cleared once used
RowDone_clearing_key_element(i, out) ==
    /\ output' = out
    /\ call' = [call EXCEPT !.done = @ \cup {i}]
    /\ input_lwe_secret_key' = [input_lwe_secret_key EXCEPT ![i] = 0]
    /\ UNCHANGED <<output_glwe_secret_key, decomp,
                   generator, seeder, pc, panic, prev, calls_left, threads>>
    /\ UNCHANGED split_vars

\* row i has been encrypted: the container holds it
RowDone(i, out) ==
    /\ output' = out
    /\ call' = [call EXCEPT !.done = @ \cup {i}]
    /\ UNCHANGED <<input_lwe_secret_key, output_glwe_secret_key, decomp,
                   generator, seeder, pc, panic, prev, calls_left, threads>>
    /\ UNCHANGED split_vars

Row_generate_lwe_bootstrap_key ==
    /\ pc = "running" /\ call.core = "generate_lwe_bootstrap_key"
    /\ Pending # {}
    /\ RowDone(NextRow, PlainRow(input_lwe_secret_key, output_glwe_secret_key,
                                 output, call.gen_iter, NextRow))

\* faulty variant of the parallel task: task i draws from the substream of
\* the mirrored index
Task_par_mirrored_substream ==
    /\ pc = "running" /\ call.core = "par_generate_lwe_bootstrap_key"
    /\ \E i \in Pending :
         RowDone(i, PlainRow(input_lwe_secret_key, output_glwe_secret_key,
                     output,
                     [call.gen_iter EXCEPT
                        ![i] = call.gen_iter[Len(call.gen_iter) + 1 - i]], i))

\* faulty variant of the parallel task: the substreams are handed out in
\* the order in which the tasks run
Task_par_substream_by_run_order ==
    /\ pc = "running" /\ call.core = "par_generate_lwe_bootstrap_key"
    /\ \E i \in Pending :
         RowDone(i, PlainRow(input_lwe_secret_key, output_glwe_secret_key,
                     output,
                     [call.gen_iter EXCEPT
                        ![i] = call.gen_iter[Cardinality(call.done) + 1]], i))

\* faulty variant of the parallel row task: the task of a row waits for the
\* task of the row before it
RowTask_waiting_for_previous_row(i) ==
    /\ pc = "running" /\ call.core = "par_generate_lwe_bootstrap_key"
    /\ i \in Pending
    /\ i = 1 \/ (i - 1) \in call.done
    /\ RowDone(i, PlainRow(input_lwe_secret_key, output_glwe_secret_key,
                           output, call.gen_iter, i))

\* the task for_each runs on item i of the parallel zip
RowTask_par_generate_lwe_bootstrap_key(i) ==
    /\ pc = "running" /\ call.core = "par_generate_lwe_bootstrap_key"
    /\ i \in Pending
    /\ RowDone(i, PlainRow(input_lwe_secret_key, output_glwe_secret_key,
                           output, call.gen_iter, i))

Task_par_generate_lwe_bootstrap_key ==
    /\ pc = "running" /\ call.core = "par_generate_lwe_bootstrap_key"
    /\ \E i \in Pending : RowTask_par_generate_lwe_bootstrap_key(i)

Row_generate_seeded_lwe_bootstrap_key ==
    /\ pc = "running" /\ call.core = "generate_seeded_lwe_bootstrap_key"
    /\ Pending # {}
    /\ RowDone(NextRow, SeededRow(input_lwe_secret_key, output_glwe_secret_key,
                                  output, call.gen_iter, NextRow))

\* faulty variant of the parallel seeded row task: the task also writes its
\* row over the row after its own
RowTask_writing_neighbour_row(i) ==
    /\ pc = "running" /\ call.core = "par_generate_seeded_lwe_bootstrap_key"
    /\ i \in Pending
    /\ LET own == SeededRow(input_lwe_secret_key, output_glwe_secret_key,
                            output, call.gen_iter, i)
       IN RowDone(i, [own EXCEPT !.rows[(i % Len(own.rows)) + 1] = own.rows[i]])

\* the task for_each runs on item i of the parallel zip
RowTask_par_generate_seeded_lwe_bootstrap_key(i) ==
    /\ pc = "running" /\ call.core = "par_generate_seeded_lwe_bootstrap_key"
    /\ i \in Pending
    /\ RowDone(i, SeededRow(input_lwe_secret_key, output_glwe_secret_key,
                            output, call.gen_iter, i))

Task_par_generate_seeded_lwe_bootstrap_key ==
    /\ pc = "running" /\ call.core = "par_generate_seeded_lwe_bootstrap_key"
    /\ \E i \in Pending : RowTask_par_generate_seeded_lwe_bootstrap_key(i)

\* the loop (or the join of the tasks) is over: the generator returns
Return ==
    /\ pc = "running"
    /\ Pending = {}
    /\ pc' = "returned"
    /\ UNCHANGED <<input_lwe_secret_key, output_glwe_secret_key, decomp,
                   generator, seeder, output, panic, call, prev, calls_left,
                   threads>>
    /\ UNCHANGED split_vars

\* the caller replaces its generator by one freshly created from the same
\* seed
NewGenerator ==
    /\ pc # "running"
    /\ generator # StreamFromSeed(generator.seed)
    /\ LET made == EncryptionRandomGenerator_new(generator.seed, seeder)
       IN generator' = made.generator /\ seeder' = made.seeder
    /\ UNCHANGED <<input_lwe_secret_key, output_glwe_secret_key, decomp,
                   output, pc, panic, call, prev, calls_left, threads>>
    /\ UNCHANGED split_vars

(***************************************************************************)
(* Specifications.                                                         *)
(***************************************************************************)
NoSplitCall == [fn |-> "none"]

NoIter == [type |-> "none"]

NoRet == [fn |-> "none"]

InitCommon ==
    /\ output = NoKey
    /\ pc = "idle"
    /\ panic = ""
    /\ call = NoCall
    /\ prev = NoCall
    /\ split_log = <<>>
    /\ str = [chars |-> <<>>, padded |-> FALSE]
    /\ pat = [kind |-> "Clear", str |-> <<>>]
    /\ split_call = NoSplitCall
    /\ split_iter = NoIter
    /\ split_ret = NoRet
    /\ split_panic = ""

\* one call, over every key and parameter choice
Init ==
    /\ input_lwe_secret_key \in LweSecretKeys
    /\ output_glwe_secret_key \in GlweSecretKeys
    /\ decomp \in DecompParams
    /\ seeder \in {0, 1}
    /\ generator \in { EncryptionRandomGenerator_new(s, seeder).generator :
                          s \in Seeds }
    /\ calls_left = 1
    /\ threads = <<>>
    /\ InitCommon

\* two calls in a row by the same caller
InitPair ==
    /\ input_lwe_secret_key \in { k \in LweSecretKeys : k[1] = 1 }
    /\ output_glwe_secret_key \in { k \in GlweSecretKeys : k.data[2] = 0 }
    /\ decomp \in { d \in DecompParams :
                      d.decomp_level_count * 2 = output_glwe_secret_key.polynomial_size }
    /\ seeder = 0
    /\ generator = EncryptionRandomGenerator_new(1, seeder).generator
    /\ calls_left = 2
    /\ threads = <<>>
    /\ InitCommon

Next ==
    \/ Call_generate_lwe_bootstrap_key
    \/ Call_par_generate_lwe_bootstrap_key
    \/ Call_generate_seeded_lwe_bootstrap_key
    \/ Call_par_generate_seeded_lwe_bootstrap_key
    \/ Call_allocate_and_generate_new_lwe_bootstrap_key
    \/ Call_par_allocate_and_generate_new_lwe_bootstrap_key
    \/ Call_allocate_and_generate_new_seeded_lwe_bootstrap_key
    \/ Call_par_allocate_and_generate_new_seeded_lwe_bootstrap_key
    \/ Row_generate_lwe_bootstrap_key
    \/ Task_par_generate_lwe_bootstrap_key
    \/ Row_generate_seeded_lwe_bootstrap_key
    \/ Task_par_generate_seeded_lwe_bootstrap_key
    \/ Return
    \/ NewGenerator

Spec == Init /\ [][Next]_vars

SpecPair == InitPair /\ [][Next]_vars

\* the calling thread keeps running its loop and returns once the loop is
\* over; the thread pool eventually runs every row task handed to it
FairScheduling ==
    /\ WF_vars(Row_generate_lwe_bootstrap_key)
    /\ WF_vars(Row_generate_seeded_lwe_bootstrap_key)
    /\ \A i \in 1..MaxLweDim :
          /\ WF_vars(RowTask_par_generate_lwe_bootstrap_key(i))
          /\ WF_vars(RowTask_par_generate_seeded_lwe_bootstrap_key(i))
    /\ WF_vars(Return)

\* one call, on a generator that is fresh or that earlier use has left
\* with room for two small rows
InitFair ==
    /\ input_lwe_secret_key \in { k \in LweSecretKeys : k[1] = 1 }
    /\ output_glwe_secret_key \in
          { k \in GlweSecretKeys : k.polynomial_size = 2 /\ k.data[2] = 0 }
    /\ decomp \in { d \in DecompParams : d.decomp_level_count = 1 }
    /\ seeder = 0
    /\ generator \in
          { EncryptionRandomGenerator_new(1, seeder).generator,
            ForkParent(EncryptionRandomGenerator_new(1, seeder).generator,
                       [children |-> 1, mask_bytes |-> StreamCapacity - 8,
                        noise_bytes |-> StreamCapacity - 8]) }
    /\ calls_left = 1
    /\ threads = <<>>
    /\ InitCommon

FairSpec == InitFair /\ [][Next]_vars /\ FairScheduling

(***************************************************************************)
(* Concurrent calls.  Each thread makes one generation call on a container *)
(* and a generator (or seeder) of its own; the two secret keys are the     *)
(* caller's, shared by reference between the threads.  The steps of the    *)
(* threads, row tasks included, interleave in any order.                   *)
(***************************************************************************)
ThreadIds == {1, 2}

\* a thread that has not made its call yet
IdleThread(gen, sdr) ==
    [pc |-> "idle", panic |-> "", output |-> NoKey, generator |-> gen,
     seeder |-> sdr, call |-> NoCall, generator0 |-> gen, seeder0 |-> sdr]

\* the containers a thread allocates for its call
ThreadContainers ==
    LET n == Len(input_lwe_secret_key)
        g == to_glwe_size(output_glwe_secret_key.glwe_dimension)
        N == output_glwe_secret_key.polynomial_size
    IN { LweBootstrapKey_new(0, g, N, decomp.decomp_base_log,
                             decomp.decomp_level_count, m, Q) : m \in {n, n + 1} }
       \cup { SeededLweBootstrapKey_new(0, g, N, decomp.decomp_base_log,
                                        decomp.decomp_level_count, n, s, Q) :
                s \in Seeds }

CoreNames ==
    {"generate_lwe_bootstrap_key", "par_generate_lwe_bootstrap_key",
     "generate_seeded_lwe_bootstrap_key", "par_generate_seeded_lwe_bootstrap_key"}

\* the generator named core, up to and including its fork
RunCore(core, in_key, out_key, out, gen, noise_seeder) ==
    CASE core = "generate_lwe_bootstrap_key" ->
             generate_lwe_bootstrap_key(in_key, out_key, out, gen)
      [] core = "par_generate_lwe_bootstrap_key" ->
             par_generate_lwe_bootstrap_key(in_key, out_key, out, gen)
      [] core = "generate_seeded_lwe_bootstrap_key" ->
             generate_seeded_lwe_bootstrap_key(in_key, out_key, out, noise_seeder)
      [] core = "par_generate_seeded_lwe_bootstrap_key" ->
             par_generate_seeded_lwe_bootstrap_key(in_key, out_key, out, noise_seeder)

\* the body of the loop of a generator for item i of its zip
RowOfCore(in_key, out_key, out, gen_iter, i) ==
    IF out.kind = "plain" THEN PlainRow(in_key, out_key, out, gen_iter, i)
    ELSE SeededRow(in_key, out_key, out, gen_iter, i)

\* thread t enters generator core on its container out
ThreadEnter(t, core, out) ==
    /\ threads[t].pc = "idle"
    /\ (out.kind = "plain") =
          (core \in {"generate_lwe_bootstrap_key", "par_generate_lwe_bootstrap_key"})
    /\ LET res == RunCore(core, input_lwe_secret_key, output_glwe_secret_key,
                          out, threads[t].generator, threads[t].seeder)
       IN threads' = [threads EXCEPT ![t] =
             [@ EXCEPT !.pc = res.status,
                       !.panic = res.panic,
                       !.output = res.output,
                       !.generator = IF out.kind = "plain" THEN res.rng ELSE @,
                       !.seeder = IF out.kind = "plain" THEN @ ELSE res.rng,
                       !.call = [core |-> core, gen_iter |-> res.gen_iter,
                                 done |-> {}, output0 |-> out]]]
    /\ UNCHANGED <<input_lwe_secret_key, output_glwe_secret_key, decomp,
                   generator, seeder, output, pc, panic, call, prev, calls_left>>
    /\ UNCHANGED split_vars

ThreadCall(t) ==
    \E core \in CoreNames, out \in ThreadContainers : ThreadEnter(t, core, out)

ThreadPending(t) ==
    ZipIndexes(threads[t].output, input_lwe_secret_key, threads[t].call.gen_iter)
        \ threads[t].call.done

\* faulty variant of ThreadRowDone: the row is also written into the
\* container of every other running call that has such a row
ThreadRowDone_on_shared_container(t, i, out) ==
    /\ threads' =
          [u \in DOMAIN threads |->
             IF u = t
             THEN [threads[u] EXCEPT !.output = out, !.call.done = @ \cup {i}]
             ELSE IF threads[u].pc = "running" /\ i <= Len(threads[u].output.rows)
             THEN [threads[u] EXCEPT !.output.rows[i] = out.rows[i]]
             ELSE threads[u]]
    /\ UNCHANGED <<input_lwe_secret_key, output_glwe_secret_key, decomp,
                   generator, seeder, output, pc, panic, call, prev, calls_left>>
    /\ UNCHANGED split_vars

\* row i of the container of thread t has been encrypted
ThreadRowDone(t, i, out) ==
    /\ threads' = [threads EXCEPT ![t].output = out, ![t].call.done = @ \cup {i}]
    /\ UNCHANGED <<input_lwe_secret_key, output_glwe_secret_key, decomp,
                   generator, seeder, output, pc, panic, call, prev, calls_left>>
    /\ UNCHANGED split_vars

\* one iteration of the loop of a sequential generator run by thread t
ThreadRow(t) ==
    /\ threads[t].pc = "running"
    /\ threads[t].call.core \in
          {"generate_lwe_bootstrap_key", "generate_seeded_lwe_bootstrap_key"}
    /\ ThreadPending(t) # {}
    /\ LET i == CHOOSE k \in ThreadPending(t) : \A j \in ThreadPending(t) : k <= j
       IN ThreadRowDone(t, i, RowOfCore(input_lwe_secret_key,
              output_glwe_secret_key, threads[t].output,
              threads[t].call.gen_iter, i))

\* one row task of a parallel generator run by thread t
ThreadTask(t) ==
    /\ threads[t].pc = "running"
    /\ threads[t].call.core \in
          {"par_generate_lwe_bootstrap_key", "par_generate_seeded_lwe_bootstrap_key"}
    /\ \E i \in ThreadPending(t) :
          ThreadRowDone(t, i, RowOfCore(input_lwe_secret_key,
              output_glwe_secret_key, threads[t].output,
              threads[t].call.gen_iter, i))

\* the loop of thread t is over (or its tasks have joined): the call returns
ThreadReturn(t) ==
    /\ threads[t].pc = "running"
    /\ ThreadPending(t) = {}
    /\ threads' = [threads EXCEPT ![t].pc = "returned"]
    /\ UNCHANGED <<input_lwe_secret_key, output_glwe_secret_key, decomp,
                   generator, seeder, output, pc, panic, call, prev, calls_left>>
    /\ UNCHANGED split_vars

\* two threads, the secret keys shared, a generator and a seeder each
InitConcurrent ==
    /\ input_lwe_secret_key \in { k \in LweSecretKeys : k[1] = 1 }
    /\ output_glwe_secret_key \in { k \in GlweSecretKeys : k.polynomial_size = 2 }
    /\ decomp \in { d \in DecompParams : d.decomp_level_count = 1 }
    /\ seeder = 0
    /\ generator = StreamFromSeed(1)
    /\ calls_left = 0
    /\ InitCommon
    /\ threads \in
          { f \in [ThreadIds -> { IdleThread(StreamFromSeed(s), 0) : s \in Seeds }] :
              f[1].generator.seed = 1 }

NextConcurrent ==
    \E t \in ThreadIds :
        \/ ThreadCall(t)
        \/ ThreadRow(t)
        \/ ThreadTask(t)
        \/ ThreadReturn(t)

SpecConcurrent == InitConcurrent /\ [][NextConcurrent]_vars

(***************************************************************************)
(* Encrypted strings (FheString) and the operations of the string server   *)
(* key that the split functions call.  They live outside split/mod.rs; an  *)
(* encrypted string is modelled by its characters, with 0 for the null of  *)
(* the padding, and an encrypted integer or boolean by its value.          *)
(***************************************************************************)
Letters == {1, 2}

\* the cleartext strings of at most n letters
Words(n) == UNION { [1..k -> Letters] : k \in 0..n }

Nulls(k) == [i \in 1..k |-> 0]

\* FheString::new(client_key, s, padding)
FheString_new(s, padding) ==
    [chars |-> s \o Nulls(padding), padded |-> padding > 0]

\* FheString::trivial(server_key, s)
FheString_trivial(s) == [chars |-> s, padded |-> FALSE]

\* FheString::empty()
FheString_empty == [chars |-> <<>>, padded |-> FALSE]

\* ClientKey::decrypt_ascii: the characters without the nulls
decrypt_ascii(s) == SelectSeq(s.chars, LAMBDA c : c # 0)

append_null(s) == [chars |-> Append(s.chars, 0), padded |-> TRUE]

set_is_padded(s, b) == [s EXCEPT !.padded = b]

\* ServerKey::len: the number of characters before the padding, whether it
\* comes as FheStringLen::NoPadding or encrypted in FheStringLen::Padding
len(s) == Len(decrypt_ascii(s))

\* ServerKey::is_empty, as FheStringIsEmpty::NoPadding or ::Padding
is_empty(s) == len(s) = 0

\* arithmetic of the radix integers that hold lengths and indexes
RadixModulus == 2 ^ 16

radix_add(a, b) == (a + b) % RadixModulus

radix_sub(a, b) == (a - b) % RadixModulus

\* right_shift_chars: the characters move towards the end, nulls come in
\* at the start
right_shift_chars(s, shift) ==
    [s EXCEPT !.chars = [i \in 1..Len(s.chars) |->
                           IF i > shift THEN s.chars[i - shift] ELSE 0]]

\* left_shift_chars: the characters move towards the start, nulls come in
\* at the end
left_shift_chars(s, shift) ==
    [s EXCEPT !.chars = [i \in 1..Len(s.chars) |->
                           IF i + shift <= Len(s.chars)
                           THEN s.chars[i + shift] ELSE 0]]

\* conditional_string: one string or the other, padded to a common length
conditional_string(condition, true_ct, false_ct) ==
    LET chosen == IF condition THEN true_ct ELSE false_ct
        length == IF Len(true_ct.chars) >= Len(false_ct.chars)
                  THEN Len(true_ct.chars) ELSE Len(false_ct.chars)
        padded == [chars |-> chosen.chars \o Nulls(length - Len(chosen.chars)),
                   padded |-> true_ct.padded /\ false_ct.padded]
    IN IF true_ct.padded /\ false_ct.padded THEN padded
       ELSE IF true_ct.padded \/ false_ct.padded THEN append_null(padded)
       ELSE padded

\* GenericPatternRef::Clear(pat) => FheString::trivial(self, pat.str()),
\* GenericPatternRef::Enc(pat) => pat.clone()
trivial_or_enc_pat(p) ==
    IF p.kind = "Clear" THEN FheString_trivial(p.str) ELSE p.str

\* the pattern occurs in the string at 0-based index k
MatchesAt(s, p, k) ==
    /\ k + Len(p) <= Len(s)
    /\ \A j \in 1..Len(p) : s[k + j] = p[j]

MatchIndexes(s, p) ==
    { k \in 0..Len(decrypt_ascii(s)) :
        MatchesAt(decrypt_ascii(s), decrypt_ascii(trivial_or_enc_pat(p)), k) }

\* ServerKey::find: index of the first occurrence and whether there is one
find(s, p) ==
    LET m == MatchIndexes(s, p)
    IN IF m = {} THEN [index |-> 0, is_match |-> FALSE]
       ELSE [index |-> CHOOSE k \in m : \A j \in m : k <= j, is_match |-> TRUE]

\* ServerKey::rfind: index of the last occurrence and whether there is one
rfind(s, p) ==
    LET m == MatchIndexes(s, p)
    IN IF m = {} THEN [index |-> 0, is_match |-> FALSE]
       ELSE [index |-> CHOOSE k \in m : \A j \in m : k >= j, is_match |-> TRUE]

\* ServerKey::length_checks: what the lengths alone decide.  Clear(true)
\* when the pattern is empty, Cipher when the string is empty and the
\* pattern padded, Clear(false) when the pattern cannot fit, None otherwise
length_checks(s, p) ==
    LET pat_len == Len(p.chars)
        str_len == Len(s.chars)
    IN IF pat_len = 0 \/ (p.padded /\ pat_len = 1)
       THEN [kind |-> "Clear", val |-> TRUE]
       ELSE IF str_len = 0 \/ (s.padded /\ str_len = 1)
       THEN (IF p.padded THEN [kind |-> "Cipher", val |-> is_empty(p)]
             ELSE [kind |-> "Clear", val |-> FALSE])
       ELSE IF ~p.padded /\ ~s.padded /\ str_len < pat_len
       THEN [kind |-> "Clear", val |-> FALSE]
       ELSE IF ~p.padded /\ s.padded /\ str_len <= pat_len
       THEN [kind |-> "Clear", val |-> FALSE]
       ELSE [kind |-> "None", val |-> FALSE]

(***************************************************************************)
(* split/mod.rs.                                                           *)
(***************************************************************************)
\* faulty variant of split_pat_at_index: the right-hand side starts at the
\* match, the pattern is not skipped
split_pat_at_index_keeping_pattern(s, p, index, inclusive) ==
    LET str_len == Len(s.chars)
        real_pat_len == len(trivial_or_enc_pat(p))
        shift_right == IF inclusive
                       THEN radix_sub(radix_sub(str_len, index), real_pat_len)
                       ELSE radix_sub(str_len, index)
        lhs == left_shift_chars(right_shift_chars(s, shift_right), shift_right)
        rhs == left_shift_chars(s, index)
    IN IF s.padded
       THEN [lhs |-> set_is_padded(lhs, TRUE), rhs |-> set_is_padded(rhs, TRUE)]
       ELSE [lhs |-> append_null(lhs), rhs |-> append_null(rhs)]

\* faulty variant of split_pat_at_index: both halves take over the padding
\* mark of the string and no null is appended
split_pat_at_index_without_null(s, p, index, inclusive) ==
    LET str_len == Len(s.chars)
        real_pat_len == len(trivial_or_enc_pat(p))
        shift_right == IF inclusive
                       THEN radix_sub(radix_sub(str_len, index), real_pat_len)
                       ELSE radix_sub(str_len, index)
        lhs == left_shift_chars(right_shift_chars(s, shift_right), shift_right)
        shift_left == radix_add(real_pat_len, index)
        rhs == left_shift_chars(s, shift_left)
    IN [lhs |-> set_is_padded(lhs, s.padded), rhs |-> set_is_padded(rhs, s.padded)]

split_pat_at_index(s, p, index, inclusive) ==
    LET str_len == Len(s.chars)
        real_pat_len == len(trivial_or_enc_pat(p))
        shift_right == IF inclusive
                       THEN radix_sub(radix_sub(str_len, index), real_pat_len)
                       ELSE radix_sub(str_len, index)
        lhs == left_shift_chars(right_shift_chars(s, shift_right), shift_right)
        shift_left == radix_add(real_pat_len, index)
        rhs == left_shift_chars(s, shift_left)
    IN IF s.padded
       THEN [lhs |-> set_is_padded(lhs, TRUE), rhs |-> set_is_padded(rhs, TRUE)]
       ELSE [lhs |-> append_null(lhs), rhs |-> append_null(rhs)]

\* faulty variant of rsplit_once: for an empty pattern it returns what
\* split_once returns, the match taken at the start
rsplit_once_matching_at_start(s, p) ==
    LET chk == length_checks(s, trivial_or_enc_pat(p))
        f == rfind(s, p)
        sp == split_pat_at_index(s, p, f.index, FALSE)
    IN IF chk.kind = "Clear"
       THEN (IF chk.val
             THEN [lhs |-> FheString_empty, rhs |-> s, is_match |-> TRUE]
             ELSE [lhs |-> FheString_empty, rhs |-> s, is_match |-> FALSE])
       ELSE IF chk.kind = "Cipher"
       THEN [lhs |-> FheString_empty, rhs |-> FheString_empty,
             is_match |-> chk.val]
       ELSE [lhs |-> sp.lhs, rhs |-> sp.rhs, is_match |-> f.is_match]

rsplit_once(s, p) ==
    LET chk == length_checks(s, trivial_or_enc_pat(p))
        f == rfind(s, p)
        sp == split_pat_at_index(s, p, f.index, FALSE)
    IN IF chk.kind = "Clear"
       THEN (IF chk.val
             THEN [lhs |-> s, rhs |-> FheString_empty, is_match |-> TRUE]
             ELSE [lhs |-> FheString_empty, rhs |-> s, is_match |-> FALSE])
       ELSE IF chk.kind = "Cipher"
       THEN [lhs |-> FheString_empty, rhs |-> FheString_empty,
             is_match |-> chk.val]
       ELSE [lhs |-> sp.lhs, rhs |-> sp.rhs, is_match |-> f.is_match]

split_once(s, p) ==
    LET chk == length_checks(s, trivial_or_enc_pat(p))
        f == find(s, p)
        sp == split_pat_at_index(s, p, f.index, FALSE)
    IN IF chk.kind = "Clear"
       THEN (IF chk.val
             THEN [lhs |-> FheString_empty, rhs |-> s, is_match |-> TRUE]
             ELSE [lhs |-> FheString_empty, rhs |-> s, is_match |-> FALSE])
       ELSE IF chk.kind = "Cipher"
       THEN [lhs |-> FheString_empty, rhs |-> FheString_empty,
             is_match |-> chk.val]
       ELSE [lhs |-> sp.lhs, rhs |-> sp.rhs, is_match |-> f.is_match]

SplitTypes == {"Split", "RSplit", "SplitInclusive"}

\* what a constructor hands back: the iterator, or the panic it ended on
Built(iter) == [panic |-> "", iter |-> iter]

Panicked(msg) == [panic |-> msg, iter |-> NoIter]

\* faulty variant of split_internal: max_counter is the length of the
\* string, the 1 is not added
split_internal_without_last_piece(s, p, split_type) ==
    [type |-> "SplitInternal",
     split_type |-> split_type,
     state |-> s,
     pat |-> p,
     prev_was_some |-> TRUE,
     counter |-> 0,
     max_counter |-> len(s),
     counter_lt_max |-> TRUE]

\* the SplitInternal struct as split_internal fills it
split_internal(s, p, split_type) ==
    [type |-> "SplitInternal",
     split_type |-> split_type,
     state |-> s,
     pat |-> p,
     prev_was_some |-> TRUE,
     counter |-> 0,
     max_counter |-> radix_add(len(s), 1),
     counter_lt_max |-> TRUE]

EitherSplitNOrRSplitN == "We have either SplitN or RSplitN"

OnlySplitOrSplitInclusive == "Only Split or SplitInclusive"

\* faulty variant of splitn_internal: the split type is not looked at
splitn_internal_without_check(s, p, n, split_type) ==
    Built([type |-> "SplitNInternal",
           internal |-> split_internal(s, p, split_type),
           n |-> n,
           counter |-> 0,
           not_exceeded |-> n.val # 0])

splitn_internal(s, p, n, split_type) ==
    IF split_type = "SplitInclusive" THEN Panicked(EitherSplitNOrRSplitN)
    ELSE Built([type |-> "SplitNInternal",
                internal |-> split_internal(s, p, split_type),
                n |-> n,
                counter |-> 0,
                not_exceeded |-> n.val # 0])

\* faulty variant of split_no_trailing: the split type is not looked at
split_no_trailing_without_check(s, p, split_type) ==
    Built([type |-> "SplitNoTrailing",
           internal |-> [type |-> "SplitInternal",
                         split_type |-> split_type,
                         state |-> s,
                         pat |-> p,
                         prev_was_some |-> TRUE,
                         counter |-> 0,
                         max_counter |-> len(s),
                         counter_lt_max |-> TRUE]])

split_no_trailing(s, p, split_type) ==
    IF split_type = "RSplit" THEN Panicked(OnlySplitOrSplitInclusive)
    ELSE Built([type |-> "SplitNoTrailing",
                internal |-> [type |-> "SplitInternal",
                              split_type |-> split_type,
                              state |-> s,
                              pat |-> p,
                              prev_was_some |-> TRUE,
                              counter |-> 0,
                              max_counter |-> len(s),
                              counter_lt_max |-> TRUE]])

\* faulty variant of SplitInternal::next: prev_was_some is left as it was
\* instead of taking the flag of the search
SplitInternal_next_keeping_prev_was_some(self) ==
    LET reverse == self.split_type = "RSplit"
        found == IF reverse THEN rfind(self.state, self.pat)
                 ELSE find(self.state, self.pat)
        pat_is_empty == IF is_empty(trivial_or_enc_pat(self.pat)) THEN 1 ELSE 0
        index == IF self.counter > 0
                 THEN (IF reverse THEN radix_sub(found.index, pat_is_empty)
                       ELSE radix_add(found.index, pat_is_empty))
                 ELSE found.index
        sp == split_pat_at_index(self.state, self.pat, index,
                                 self.split_type = "SplitInclusive")
        current_is_some == found.is_match
        result == IF reverse
                  THEN conditional_string(current_is_some, sp.rhs, self.state)
                  ELSE conditional_string(current_is_some, sp.lhs, self.state)
        is_some == (current_is_some \/ self.prev_was_some)
                     /\ self.counter_lt_max
    IN [self |-> [self EXCEPT
                    !.state = IF reverse THEN sp.lhs ELSE sp.rhs,
                    !.counter_lt_max = self.max_counter > self.counter,
                    !.counter = (self.counter + 1) % RadixModulus],
        result |-> result,
        is_some |-> is_some]

\* SplitInternal::next: the iterator after the call and the pair returned
SplitInternal_next(self) ==
    LET reverse == self.split_type = "RSplit"
        found == IF reverse THEN rfind(self.state, self.pat)
                 ELSE find(self.state, self.pat)
        pat_is_empty == IF is_empty(trivial_or_enc_pat(self.pat)) THEN 1 ELSE 0
        index == IF self.counter > 0
                 THEN (IF reverse THEN radix_sub(found.index, pat_is_empty)
                       ELSE radix_add(found.index, pat_is_empty))
                 ELSE found.index
        sp == split_pat_at_index(self.state, self.pat, index,
                                 self.split_type = "SplitInclusive")
        current_is_some == found.is_match
        result == IF reverse
                  THEN conditional_string(current_is_some, sp.rhs, self.state)
                  ELSE conditional_string(current_is_some, sp.lhs, self.state)
        is_some == (current_is_some \/ self.prev_was_some)
                     /\ self.counter_lt_max
    IN [self |-> [self EXCEPT
                    !.state = IF reverse THEN sp.lhs ELSE sp.rhs,
                    !.prev_was_some = current_is_some,
                    !.counter_lt_max = self.max_counter > self.counter,
                    !.counter = (self.counter + 1) % RadixModulus],
        result |-> result,
        is_some |-> is_some]

\* faulty variant of split_no_leading: the first piece is taken to be empty
\* without being looked at
split_no_leading_always_skipping(s, p) ==
    LET first == SplitInternal_next(split_internal(s, p, "RSplit"))
    IN Built([type |-> "SplitNoLeading",
              internal |-> first.self,
              prev_return |-> [result |-> first.result,
                               is_some |-> first.is_some],
              leading_empty_str |-> TRUE])

\* split_no_leading: a reverse SplitInternal, advanced once
split_no_leading(s, p) ==
    LET first == SplitInternal_next(split_internal(s, p, "RSplit"))
    IN Built([type |-> "SplitNoLeading",
              internal |-> first.self,
              prev_return |-> [result |-> first.result,
                               is_some |-> first.is_some],
              leading_empty_str |-> is_empty(first.result)])

\* faulty variant of SplitNInternal::next: a clear count is compared with
\* the counter, not with the counter plus one
SplitNInternal_next_one_late(self) ==
    LET state == self.internal.state
        inner == SplitInternal_next(self.internal)
        is_some == inner.is_some /\ self.not_exceeded
        n_minus_one == radix_sub(self.n.val, 1)
        exceeded == IF self.n.kind = "Clear"
                    THEN self.counter >= self.n.val
                    ELSE n_minus_one <= self.counter
        result == IF self.n.kind = "Clear"
                  THEN (IF exceeded THEN state ELSE inner.result)
                  ELSE conditional_string(exceeded, state, inner.result)
    IN [self |-> [self EXCEPT
                    !.internal = inner.self,
                    !.not_exceeded = IF self.n.kind = "Clear"
                                     THEN (IF exceeded THEN FALSE ELSE @)
                                     ELSE @ /\ ~exceeded,
                    !.counter = (self.counter + 1) % RadixModulus],
        result |-> result,
        is_some |-> is_some]

\* faulty variant of SplitNInternal::next: an encrypted count is compared
\* with the counter as it is, 1 is not subtracted from it
SplitNInternal_next_enc_without_minus_one(self) ==
    LET state == self.internal.state
        inner == SplitInternal_next(self.internal)
        is_some == inner.is_some /\ self.not_exceeded
        n_minus_one == self.n.val
        exceeded == IF self.n.kind = "Clear"
                    THEN self.counter + 1 >= self.n.val
                    ELSE n_minus_one <= self.counter
        result == IF self.n.kind = "Clear"
                  THEN (IF exceeded THEN state ELSE inner.result)
                  ELSE conditional_string(exceeded, state, inner.result)
    IN [self |-> [self EXCEPT
                    !.internal = inner.self,
                    !.not_exceeded = IF self.n.kind = "Clear"
                                     THEN (IF exceeded THEN FALSE ELSE @)
                                     ELSE @ /\ ~exceeded,
                    !.counter = (self.counter + 1) % RadixModulus],
        result |-> result,
        is_some |-> is_some]

\* SplitNInternal::next
SplitNInternal_next(self) ==
    LET state == self.internal.state
        inner == SplitInternal_next(self.internal)
        is_some == inner.is_some /\ self.not_exceeded
        n_minus_one == radix_sub(self.n.val, 1)
        exceeded == IF self.n.kind = "Clear"
                    THEN self.counter + 1 >= self.n.val
                    ELSE n_minus_one <= self.counter
        result == IF self.n.kind = "Clear"
                  THEN (IF exceeded THEN state ELSE inner.result)
                  ELSE conditional_string(exceeded, state, inner.result)
    IN [self |-> [self EXCEPT
                    !.internal = inner.self,
                    !.not_exceeded = IF self.n.kind = "Clear"
                                     THEN (IF exceeded THEN FALSE ELSE @)
                                     ELSE @ /\ ~exceeded,
                    !.counter = (self.counter + 1) % RadixModulus],
        result |-> result,
        is_some |-> is_some]

\* faulty variant of SplitNoTrailing::next: every empty piece is dropped,
\* whether or not the search of the call matched
SplitNoTrailing_next_dropping_every_empty_piece(self) ==
    LET inner == SplitInternal_next(self.internal)
        result_is_empty == is_empty(inner.result)
        prev_was_none == ~inner.self.prev_was_some
        trailing_empty_str == result_is_empty
        not_trailing_empty_str == ~trailing_empty_str
    IN [self |-> [self EXCEPT !.internal = inner.self],
        result |-> inner.result,
        is_some |-> inner.is_some /\ not_trailing_empty_str]

\* SplitNoTrailing::next
SplitNoTrailing_next(self) ==
    LET inner == SplitInternal_next(self.internal)
        result_is_empty == is_empty(inner.result)
        prev_was_none == ~inner.self.prev_was_some
        trailing_empty_str == result_is_empty /\ prev_was_none
        not_trailing_empty_str == ~trailing_empty_str
    IN [self |-> [self EXCEPT !.internal = inner.self],
        result |-> inner.result,
        is_some |-> inner.is_some /\ not_trailing_empty_str]

\* SplitNoLeading::next
SplitNoLeading_next(self) ==
    LET inner == SplitInternal_next(self.internal)
        return_result == conditional_string(self.leading_empty_str,
                                            inner.result, self.prev_return.result)
        lhs == self.leading_empty_str /\ inner.is_some
        rhs == ~self.leading_empty_str /\ self.prev_return.is_some
    IN [self |-> [self EXCEPT
                    !.internal = inner.self,
                    !.prev_return = [result |-> inner.result,
                                     is_some |-> inner.is_some]],
        result |-> return_result,
        is_some |-> lhs \/ rhs]

\* FheStringIterator::next on whichever iterator the caller holds
FheStringIterator_next(iter) ==
    CASE iter.type = "SplitInternal" -> SplitInternal_next(iter)
      [] iter.type = "SplitNInternal" -> SplitNInternal_next(iter)
      [] iter.type = "SplitNoTrailing" -> SplitNoTrailing_next(iter)
      [] iter.type = "SplitNoLeading" -> SplitNoLeading_next(iter)

(***************************************************************************)
(* Calls into the split layer.                                             *)
(***************************************************************************)
\* the strings and patterns a caller hands in
FheStrings ==
    { FheString_new(s, padding) : s \in Words(MaxStrLen), padding \in 0..MaxPadding }

Patterns ==
    { [kind |-> "Clear", str |-> s] : s \in Words(MaxPatLen) }
    \cup { [kind |-> "Enc", str |-> FheString_new(s, padding)] :
             s \in Words(MaxPatLen), padding \in 0..MaxPadding }

\* the counts a caller asks splitn for, clear or encrypted
UIntArgs ==
    { [kind |-> k, val |-> v] : k \in {"Clear", "Enc"}, v \in {0, 1, 2, 3} }

generation_vars ==
    <<input_lwe_secret_key, output_glwe_secret_key, decomp, generator,
      seeder, output, pc, panic, call, prev, calls_left, threads>>

\* the caller gets (lhs, rhs, is_match) back
Returned(fn, ret) ==
    /\ split_call = NoSplitCall
    /\ split_call' = [fn |-> fn]
    /\ split_ret' = [fn |-> fn, lhs |-> ret.lhs, rhs |-> ret.rhs,
                     is_match |-> ret.is_match]
    /\ UNCHANGED <<str, pat, split_iter, split_panic, split_log>>
    /\ UNCHANGED generation_vars

\* the caller gets an iterator back, or the constructor panics
Constructed(fn, args, res) ==
    /\ split_call = NoSplitCall
    /\ split_call' = [fn |-> fn, split_type |-> args.split_type, n |-> args.n]
    /\ split_iter' = res.iter
    /\ split_panic' = res.panic
    /\ UNCHANGED <<str, pat, split_ret, split_log>>
    /\ UNCHANGED generation_vars

NoCount == [kind |-> "none", val |-> 0]

Call_rsplit_once == Returned("rsplit_once", rsplit_once(str, pat))

Call_split_once == Returned("split_once", split_once(str, pat))

Call_split_internal ==
    \E split_type \in SplitTypes :
        Constructed("split_internal", [split_type |-> split_type, n |-> NoCount],
                    Built(split_internal(str, pat, split_type)))

Call_splitn_internal ==
    \E n \in UIntArgs, split_type \in SplitTypes :
        Constructed("splitn_internal", [split_type |-> split_type, n |-> n],
                    splitn_internal(str, pat, n, split_type))

Call_split_no_trailing ==
    \E split_type \in SplitTypes :
        Constructed("split_no_trailing", [split_type |-> split_type, n |-> NoCount],
                    split_no_trailing(str, pat, split_type))

Call_split_no_leading ==
    Constructed("split_no_leading", [split_type |-> "RSplit", n |-> NoCount],
                split_no_leading(str, pat))

\* next calls a caller makes on one iterator
MaxNextCalls == MaxStrLen + 3

\* the caller calls next on the iterator it was handed; the log keeps the
\* iterator as it was before the call and the pair the call returned
Call_next ==
    /\ split_iter # NoIter
    /\ Len(split_log) < MaxNextCalls
    /\ LET r == FheStringIterator_next(split_iter)
       IN /\ split_iter' = r.self
          /\ split_log' = Append(split_log, [self |-> split_iter,
                                             result |-> r.result,
                                             is_some |-> r.is_some])
    /\ UNCHANGED <<str, pat, split_call, split_ret, split_panic>>
    /\ UNCHANGED generation_vars

\* no key generation goes on while strings are split
InitSplit ==
    /\ str \in FheStrings
    /\ pat \in Patterns
    /\ split_call = NoSplitCall
    /\ split_iter = NoIter
    /\ split_ret = NoRet
    /\ split_panic = ""
    /\ split_log = <<>>
    /\ threads = <<>>
    /\ input_lwe_secret_key = <<>>
    /\ output_glwe_secret_key = [glwe_dimension |-> 0, polynomial_size |-> 0,
                                 data |-> <<>>]
    /\ decomp \in { d \in DecompParams : d.decomp_level_count = 1 }
    /\ generator = StreamFromSeed(1)
    /\ seeder = 0
    /\ output = NoKey
    /\ pc = "idle"
    /\ panic = ""
    /\ call = NoCall
    /\ prev = NoCall
    /\ calls_left = 0

NextSplit ==
    \/ Call_rsplit_once
    \/ Call_split_once
    \/ Call_split_internal
    \/ Call_splitn_internal
    \/ Call_split_no_trailing
    \/ Call_split_no_leading
    \/ Call_next

SpecSplit == InitSplit /\ [][NextSplit]_vars

(***************************************************************************)
(* Properties.                                                             *)
(***************************************************************************)
\* the rows of a key in full (mask and body) form
FullRows(key) ==
    IF key.kind = "seeded" THEN decompress_seeded_lwe_bootstrap_key(key).rows
    ELSE key.rows

\* C1: once any generator (or helper) has returned, decrypting row i of the
\* key (expanded first when it is seeded) under the output GLWE secret key
\* gives coefficient i of the binary input LWE secret key, for every i.
C1_DecryptsToKeyBits ==
    pc = "returned" =>
        \A i \in 1..Len(input_lwe_secret_key) :
            /\ i \in DOMAIN FullRows(output)
            /\ decrypt_constant_ggsw_ciphertext(output_glwe_secret_key,
                   FullRows(output)[i], output.decomp_base_log)
               = input_lwe_secret_key[i]

\* the scenario of spec 8: key [1,0,1], glwe_dimension 1, polynomial size 4,
\* 2 levels, generated and returned
C1_Witness ==
    /\ pc = "returned"
    /\ call.fn = "generate_lwe_bootstrap_key"
    /\ input_lwe_secret_key = <<1, 0, 1>>
    /\ output_glwe_secret_key.glwe_dimension = 1
    /\ output_glwe_secret_key.polynomial_size = 4
    /\ output.decomp_level_count = 2
    /\ Len(output.rows) = 3

\* the parameters of a container: everything but the row data
Metadata(key) == [key EXCEPT !.rows = <<>>]

PlainCores == {"generate_lwe_bootstrap_key", "par_generate_lwe_bootstrap_key"}

SeededCores ==
    {"generate_seeded_lwe_bootstrap_key", "par_generate_seeded_lwe_bootstrap_key"}

ParCores ==
    {"par_generate_lwe_bootstrap_key", "par_generate_seeded_lwe_bootstrap_key"}

\* the call just made and the one before it both returned
BothReturned == pc = "returned" /\ prev.fn # "none" /\ prev.pc = "returned"

\* both calls were given containers with the same parameters and, for the
\* plain generators, generators in the same state
SameStart ==
    /\ Metadata(prev.output0) = Metadata(call.output0)
    /\ call.core \in PlainCores => prev.generator0 = call.generator0

\* one call ran the sequential generator, the other its parallel variant
SeqAndPar ==
    \/ {prev.core, call.core} = PlainCores
    \/ {prev.core, call.core} = SeededCores

\* C2: from the same stream state (the same generator state for the plain
\* pair, the same compression seed for the seeded pair), the same keys and
\* the same parameters, the sequential generator and its parallel variant
\* return identical containers.
C2_SeqParIdentical ==
    (BothReturned /\ SeqAndPar /\ SameStart) => output = prev.output

C2_Witness ==
    /\ BothReturned /\ SeqAndPar /\ SameStart
    /\ call.core = "par_generate_lwe_bootstrap_key"
    /\ Len(output.rows) >= 2

\* the row the generator is to put at index i: key element i encrypted
\* with the i-th substream of the fork
DesignatedRow(i) ==
    IF output.kind = "plain"
    THEN encrypt_constant_ggsw_ciphertext(output_glwe_secret_key,
             cast_into(input_lwe_secret_key[i]), call.gen_iter[i],
             output.decomp_base_log, output.decomp_level_count)
    ELSE encrypt_constant_seeded_ggsw_ciphertext(output_glwe_secret_key,
             cast_into(input_lwe_secret_key[i]), call.gen_iter[i],
             output.decomp_base_log, output.decomp_level_count)

\* C3: whatever the order in which the row tasks of a parallel generation
\* ran, the returned container holds at each index the row designated for
\* that index, and two parallel generations from the same start return the
\* same container.
C3_ScheduleIndependent ==
    /\ (pc = "returned" /\ call.core \in ParCores) =>
          \A i \in 1..Len(output.rows) : output.rows[i] = DesignatedRow(i)
    /\ (BothReturned /\ call.core \in ParCores /\ prev.core = call.core
          /\ SameStart) => output = prev.output

C3_Witness ==
    /\ BothReturned /\ SameStart
    /\ call.core = "par_generate_lwe_bootstrap_key"
    /\ prev.core = "par_generate_lwe_bootstrap_key"
    /\ Len(output.rows) >= 3

\* the seeded key and the plain key of two calls, when one call ran a
\* seeded generator and the other a plain generator on a stream freshly
\* created from the seeded key's compression seed, with the same parameters
SeededOfPair == IF output.kind = "seeded" THEN output ELSE prev.output

PlainOfPair == IF output.kind = "seeded" THEN prev.output ELSE output

PlainStartOfPair ==
    IF output.kind = "seeded" THEN prev.generator0 ELSE call.generator0

SeededAndPlainFromSameSeed ==
    /\ BothReturned
    /\ \/ call.core \in SeededCores /\ prev.core \in PlainCores
       \/ call.core \in PlainCores /\ prev.core \in SeededCores
    /\ PlainStartOfPair = StreamFromSeed(SeededOfPair.compression_seed)
    /\ Metadata(decompress_seeded_lwe_bootstrap_key(SeededOfPair))
         = Metadata(PlainOfPair)

\* C4: the seeded key generated with compression seed s expands, row for
\* row, to the plain key generated from a stream freshly created from s
\* with the same keys and parameters.
C4_SeededExpandsToPlain ==
    SeededAndPlainFromSameSeed =>
        decompress_seeded_lwe_bootstrap_key(SeededOfPair).rows = PlainOfPair.rows

C4_Witness ==
    /\ SeededAndPlainFromSameSeed
    /\ prev.core = "generate_seeded_lwe_bootstrap_key"
    /\ call.core = "generate_lwe_bootstrap_key"
    /\ Len(output.rows) >= 2

\* a step in which the caller enters a generator
EnterStep == calls_left' # calls_left

\* the step left the caller's generator, its seeder and the container as
\* they were
NothingConsumedOrWritten ==
    /\ generator' = generator
    /\ seeder' = seeder
    /\ output' = call'.output0

LweDimensionMismatch(out) ==
    out.input_lwe_dimension # Len(input_lwe_secret_key)

GlweSizeMismatch(out) ==
    out.glwe_size # to_glwe_size(output_glwe_secret_key.glwe_dimension)

PolynomialSizeMismatch(out) ==
    out.polynomial_size # output_glwe_secret_key.polynomial_size

\* C5: a generator entered with a container whose input_lwe_dimension
\* differs from the input key's dimension panics with the LweDimension
\* mismatch message, without forking or drawing from the generator or the
\* seeder and without changing the container.
C5_LweDimensionMismatchFailsFast ==
    [][(EnterStep /\ LweDimensionMismatch(call'.output0)) =>
          /\ pc' = "panicked"
          /\ panic' = MismatchedLweDimension
          /\ call'.gen_iter = <<>>
          /\ NothingConsumedOrWritten]_vars

C5_Witness ==
    /\ pc = "panicked"
    /\ panic = MismatchedLweDimension
    /\ call.fn = "generate_seeded_lwe_bootstrap_key"
    /\ LweDimensionMismatch(call.output0)

\* C6: a generator entered with a container whose GLWE size or polynomial
\* size differs from that of the output GLWE secret key panics with a
\* mismatch message (the GlweSize one, or the PolynomialSize one when only
\* the polynomial sizes differ, the input dimensions agreeing), before any
\* randomness is consumed and before any row is written.
C6_GlweMismatchFailsFast ==
    [][(EnterStep /\ (GlweSizeMismatch(call'.output0)
                        \/ PolynomialSizeMismatch(call'.output0))) =>
          /\ pc' = "panicked"
          /\ panic' \in MismatchMessages
          /\ ~LweDimensionMismatch(call'.output0) =>
                panic' = (IF GlweSizeMismatch(call'.output0)
                          THEN MismatchedGlweSize
                          ELSE MismatchedPolynomialSize)
          /\ call'.gen_iter = <<>>
          /\ NothingConsumedOrWritten]_vars

C6_Witness ==
    /\ pc = "panicked"
    /\ panic = MismatchedPolynomialSize
    /\ call.fn = "par_generate_seeded_lwe_bootstrap_key"
    /\ PolynomialSizeMismatch(call.output0)

IsZero(key) ==
    \A i \in DOMAIN key.rows : \A e \in DOMAIN key.rows[i] : key.rows[i][e] = 0

\* C7: a returned generator has written every row of the container, each
\* with its encryption; an aborted one has written none, so that the
\* container is as it was handed in: zero-filled, or the fully encrypted
\* key a previous call returned.
C7_NoPartialKey ==
    /\ pc = "returned" =>
          /\ call.done = DOMAIN output.rows
          /\ Len(output.rows) = output.input_lwe_dimension
          /\ \A i \in DOMAIN output.rows : output.rows[i] = DesignatedRow(i)
    /\ pc = "panicked" =>
          /\ call.done = {}
          /\ output = call.output0
          /\ \/ IsZero(output)
             \/ prev.fn # "none" /\ prev.pc = "returned" /\ output = prev.output

\* a generation aborted on a failed fork, on the key an earlier call filled
C7_Witness ==
    /\ pc = "panicked"
    /\ panic = UnwrapForkError
    /\ prev.fn # "none" /\ prev.pc = "returned"
    /\ output = prev.output
    /\ ~IsZero(output)

\* the stream the generator of the current call forks
ForkedStream ==
    IF call.output0.kind = "plain" THEN call.generator0
    ELSE StreamFromSeed(call.output0.compression_seed)

PreconditionsHold ==
    /\ ~LweDimensionMismatch(call.output0)
    /\ ~GlweSizeMismatch(call.output0)
    /\ ~PolynomialSizeMismatch(call.output0)

ForkCannotBeSatisfied ==
    /\ call.fn # "none"
    /\ PreconditionsHold
    /\ ~ForkFits(ForkedStream, encryption_fork_config(call.output0))

\* C8: when the stream cannot satisfy the fork, the call panics with the
\* InsufficientEntropyConfiguration error, a message that is none of the
\* configuration mismatch messages; and a call panics with that message
\* only then.
C8_EntropyExhaustionIsDistinct ==
    /\ ForkCannotBeSatisfied =>
          pc = "panicked" /\ panic = UnwrapForkError
    /\ (pc = "panicked" /\ panic = UnwrapForkError) => ForkCannotBeSatisfied
    /\ (pc = "panicked" /\ panic \in MismatchMessages) => ~PreconditionsHold
    /\ UnwrapForkError \notin MismatchMessages

C8_Witness ==
    /\ ForkCannotBeSatisfied
    /\ pc = "panicked"
    /\ call.fn = "generate_lwe_bootstrap_key"

Helpers ==
    {"allocate_and_generate_new_lwe_bootstrap_key",
     "par_allocate_and_generate_new_lwe_bootstrap_key",
     "allocate_and_generate_new_seeded_lwe_bootstrap_key",
     "par_allocate_and_generate_new_seeded_lwe_bootstrap_key"}

SeededHelpers ==
    {"allocate_and_generate_new_seeded_lwe_bootstrap_key",
     "par_allocate_and_generate_new_seeded_lwe_bootstrap_key"}

\* the container's parameters are those of the keys and of the caller
ShapedFromKeys(key) ==
    /\ key.input_lwe_dimension = Len(input_lwe_secret_key)
    /\ key.glwe_size = to_glwe_size(output_glwe_secret_key.glwe_dimension)
    /\ key.polynomial_size = output_glwe_secret_key.polynomial_size
    /\ key.decomp_base_log = decomp.decomp_base_log
    /\ key.decomp_level_count = decomp.decomp_level_count
    /\ key.ciphertext_modulus = Q

RowsOfLength(rows, n, size) ==
    /\ Len(rows) = n
    /\ \A i \in 1..n : Len(rows[i]) = size

C10_StoredSeedIsDrawnSeed ==
    /\ call.fn \in SeededHelpers =>
          /\ output.compression_seed = seeder_seed(call.seeder0)
          /\ pc \in {"running", "returned"} =>
                call.gen_iter =
                    try_fork_from_config(
                        StreamFromSeed(output.compression_seed),
                        encryption_fork_config(output)).children
    /\ (call.fn # "none" /\ call.output0.kind = "seeded") =>
          output.compression_seed = call.output0.compression_seed

C10_Witness ==
    /\ call.fn = "allocate_and_generate_new_seeded_lwe_bootstrap_key"
    /\ pc = "returned"
    /\ seeder = call.seeder0 + 1
    /\ output.compression_seed = 2
    /\ Len(output.rows) >= 2

\* both calls of the caller have ended
BothEnded == pc \in {"returned", "panicked"} /\ prev.fn # "none"

\* one call ran a helper, the other ran the helper's core generator
\* directly, on the zero-filled container the helper allocated and, for the
\* plain generators, on a generator in the same state
HelperAndItsCore ==
    /\ BothEnded
    /\ \/ call.fn \in Helpers /\ prev.fn = call.core
       \/ prev.fn \in Helpers /\ call.fn = prev.core
    /\ call.output0 = prev.output0
    /\ call.core \in PlainCores => call.generator0 = prev.generator0

\* C11: the container a helper allocates is zero-filled and has the input
\* dimension, GLWE size and polynomial size of the supplied keys, so that no
\* helper call ends on a mismatch panic; and a helper ends as its core
\* generator does when run directly on that container from the same
\* randomness: same outcome, same substreams, same container.
C11_HelperDelegates ==
    /\ call.fn \in Helpers =>
          /\ IsZero(call.output0)
          /\ ShapedFromKeys(call.output0)
          /\ PreconditionsHold
          /\ ~(pc = "panicked" /\ panic \in MismatchMessages)
    /\ HelperAndItsCore =>
          /\ pc = prev.pc
          /\ panic = prev.panic
          /\ call.gen_iter = prev.gen_iter
          /\ output = prev.output

C11_Witness ==
    /\ HelperAndItsCore
    /\ pc = "returned"
    /\ prev.fn = "par_allocate_and_generate_new_seeded_lwe_bootstrap_key"
    /\ call.fn = "par_generate_seeded_lwe_bootstrap_key"
    /\ Len(output.rows) >= 2

\* the bytes a substream yields, lane by lane, until it is exhausted
StreamBytes(gen) ==
    [mask |-> [k \in 1..(gen.mask_bound - gen.mask_pos) |->
                 Byte(gen.seed, 0, gen.mask_pos + k - 1)],
     noise |-> [k \in 1..(gen.noise_bound - gen.noise_pos) |->
                  Byte(gen.seed, 1, gen.noise_pos + k - 1)]]

\* C12: on the stream and the fork configuration of any call that reaches
\* its fork, the parallel fork succeeds exactly when the sequential fork
\* does and returns as many substreams, one per row; its i-th substream
\* yields the bytes of the i-th substream of the sequential fork; and the
\* substreams the call works with are these.
C12_ParForkMatchesSeqFork ==
    (call.fn # "none" /\ PreconditionsHold) =>
        LET cfg == encryption_fork_config(call.output0)
            seq == try_fork_from_config(ForkedStream, cfg)
            par == par_try_fork_from_config(ForkedStream, cfg)
        IN /\ par.ok = seq.ok
           /\ Len(par.children) = Len(seq.children)
           /\ seq.ok => Len(seq.children) = call.output0.input_lwe_dimension
           /\ \A i \in 1..Len(seq.children) :
                 StreamBytes(par.children[i]) = StreamBytes(seq.children[i])
           /\ pc \in {"running", "returned"} =>
                 /\ seq.ok
                 /\ Len(call.gen_iter) = Len(seq.children)
                 /\ \A i \in 1..Len(seq.children) :
                       StreamBytes(call.gen_iter[i]) = StreamBytes(seq.children[i])

\* a parallel generation that forked a generator an earlier call had
\* advanced
C12_Witness ==
    /\ pc = "returned"
    /\ call.core = "par_generate_lwe_bootstrap_key"
    /\ call.generator0.mask_pos > 0
    /\ Len(call.gen_iter) >= 2

\* every row task of a running parallel generation that has not run yet
\* can run now, whatever the other tasks have done
NoRowTaskWaits ==
    /\ (pc = "running" /\ call.core = "par_generate_lwe_bootstrap_key") =>
          \A i \in Pending : ENABLED RowTask_par_generate_lwe_bootstrap_key(i)
    /\ (pc = "running" /\ call.core = "par_generate_seeded_lwe_bootstrap_key") =>
          \A i \in Pending :
              ENABLED RowTask_par_generate_seeded_lwe_bootstrap_key(i)

\* the preconditions of the call hold and its fork can be satisfied
ForkSucceeds ==
    /\ call.fn # "none"
    /\ PreconditionsHold
    /\ ForkFits(ForkedStream, encryption_fork_config(call.output0))

AllRowsWritten ==
    /\ pc = "returned"
    /\ call.done = DOMAIN output.rows
    /\ Len(output.rows) = output.input_lwe_dimension

\* C13 as stated: under fair scheduling a call whose preconditions hold and
\* whose fork succeeds completes with all rows written, no row task waits
\* on another, and a call that does not complete aborted on a precondition
\* violation.
C13_AbortsOnlyOnPreconditionViolation ==
    /\ [](ForkSucceeds => pc \in {"running", "returned"})
    /\ (pc = "running") ~> AllRowsWritten
    /\ []NoRowTaskWaits
    /\ [](pc = "panicked" => ~PreconditionsHold)

\* C13, amended: under fair scheduling a call whose preconditions hold and
\* whose fork succeeds completes with all rows written, no row task waits
\* on another, and a call that does not complete aborted either on a
\* precondition violation or, its preconditions holding, on the fork the
\* stream could not satisfy.
C13_CompletesOrAborts ==
    /\ [](ForkSucceeds => pc \in {"running", "returned"})
    /\ (pc = "running") ~> AllRowsWritten
    /\ []NoRowTaskWaits
    /\ [](pc = "panicked" =>
            \/ ~PreconditionsHold /\ panic \in MismatchMessages
            \/ ForkCannotBeSatisfied /\ panic = UnwrapForkError)

\* a parallel generation of three rows that returned
C13_Witness ==
    /\ AllRowsWritten
    /\ call.core = "par_generate_lwe_bootstrap_key"
    /\ Len(output.rows) = 3

\* C14: no step of a generator or of a helper (its entry with the
\* assertions and the fork, its row encryptions, its return or its abort)
\* changes the input LWE secret key or the output GLWE secret key:
\* coefficients, dimension and polynomial size stay as they were.
C14_SecretKeysUnmodified ==
    [][/\ input_lwe_secret_key' = input_lwe_secret_key
       /\ output_glwe_secret_key' = output_glwe_secret_key]_vars

\* a helper has encrypted three rows from a key with nonzero coefficients
\* and returned
C14_Witness ==
    /\ pc = "returned"
    /\ call.fn = "allocate_and_generate_new_lwe_bootstrap_key"
    /\ input_lwe_secret_key = <<1, 1, 0>>
    /\ call.done = {1, 2, 3}

\* the counter values a substream may hand out, lane by lane
MaskWindow(gen) == gen.mask_pos .. (gen.mask_bound - 1)

NoiseWindow(gen) == gen.noise_pos .. (gen.noise_bound - 1)

\* stream gen hands out nothing that substream child may hand out
AdvancedPast(gen, child) ==
    /\ gen.seed = child.seed
    /\ child.mask_bound <= gen.mask_pos
    /\ child.noise_bound <= gen.noise_pos

\* both calls ran a plain generator and returned, and the later one was
\* given the generator as the earlier one left it (a generator the caller
\* created anew in between would be at the start of its stream)
LaterCallOnSameGenerator ==
    /\ BothReturned
    /\ prev.core \in PlainCores /\ call.core \in PlainCores
    /\ call.generator0 # StreamFromSeed(call.generator0.seed)

\* the step in which a plain generator forks leaves the caller's generator
\* past the substreams it has made
ForkAdvancesGenerator ==
    (EnterStep /\ call'.core \in PlainCores /\ pc' = "running") =>
        /\ call'.gen_iter # <<>>
        /\ \A i \in DOMAIN call'.gen_iter :
              AdvancedPast(generator', call'.gen_iter[i])
        /\ generator'.mask_bound = generator.mask_bound
        /\ generator'.noise_bound = generator.noise_bound

\* C15: the step in which a plain generator forks leaves the caller's
\* generator past every byte of every row substream of the call, and the
\* rest of the call leaves the generator there; so the substreams of a later
\* plain generation on the same generator share no counter value, in either
\* lane, with the substreams of the earlier one.
C15_GeneratorAdvancedPastSubstreams ==
    /\ [][ForkAdvancesGenerator /\ (pc = "running" => generator' = generator)]_vars
    /\ [](LaterCallOnSameGenerator =>
            \A i \in DOMAIN call.gen_iter : \A j \in DOMAIN prev.gen_iter :
                /\ call.gen_iter[i].seed = prev.gen_iter[j].seed
                /\ MaskWindow(call.gen_iter[i]) \cap MaskWindow(prev.gen_iter[j]) = {}
                /\ NoiseWindow(call.gen_iter[i]) \cap NoiseWindow(prev.gen_iter[j]) = {})

\* a parallel generation of two rows on the generator a sequential
\* generation of two rows had advanced
C15_Witness ==
    /\ LaterCallOnSameGenerator
    /\ prev.core = "generate_lwe_bootstrap_key"
    /\ call.core = "par_generate_lwe_bootstrap_key"
    /\ Len(prev.gen_iter) >= 2
    /\ Len(call.gen_iter) >= 2

\* the encryption of key coefficient i with substream sub, in the form the
\* container of the current call stores
RowOf(i, sub) ==
    IF call.output0.kind = "plain"
    THEN encrypt_constant_ggsw_ciphertext(output_glwe_secret_key,
             cast_into(input_lwe_secret_key[i]), sub,
             call.output0.decomp_base_log, call.output0.decomp_level_count)
    ELSE encrypt_constant_seeded_ggsw_ciphertext(output_glwe_secret_key,
             cast_into(input_lwe_secret_key[i]), sub,
             call.output0.decomp_base_log, call.output0.decomp_level_count)

\* C19: while any of the four generators runs and once it has returned,
\* the container has one row per coefficient of the input key; every row
\* written so far, at index i, is the encryption of coefficient i drawn
\* from the i-th substream of the fork; every other row is as it was handed
\* in; and a sequential generator has written the rows in index order.
C19_RowFromItsBitAndSubstream ==
    (call.fn # "none" /\ pc \in {"running", "returned"}) =>
        LET fork == try_fork_from_config(ForkedStream,
                        encryption_fork_config(call.output0))
        IN /\ Len(output.rows) = Len(input_lwe_secret_key)
           /\ Len(fork.children) = Len(input_lwe_secret_key)
           /\ call.done \subseteq DOMAIN output.rows
           /\ \A i \in call.done :
                 output.rows[i] = RowOf(i, fork.children[i])
           /\ \A i \in DOMAIN output.rows \ call.done :
                 output.rows[i] = call.output0.rows[i]
           /\ call.core \notin ParCores =>
                 call.done = 1..Cardinality(call.done)

\* a parallel seeded generation in which the row of the last coefficient
\* has been written before the row of the first
C19_Witness ==
    /\ pc = "running"
    /\ call.core = "par_generate_seeded_lwe_bootstrap_key"
    /\ input_lwe_secret_key = <<1, 0, 1>>
    /\ call.done = {2, 3}

\* substreams a and b have no counter value in common
DisjointSubstreams(a, b) ==
    /\ MaskWindow(a) \cap MaskWindow(b) = {}
    /\ NoiseWindow(a) \cap NoiseWindow(b) = {}

\* a step of row task i: it had not run, it is the one task the step adds
\* to those that ran, it writes row i and no other row, and what it writes
\* is made of key coefficient i and substream i alone
StepOfRowTask(i) ==
    /\ i \notin call.done
    /\ call'.done = call.done \cup {i}
    /\ call'.gen_iter = call.gen_iter
    /\ output'.rows[i] = RowOf(i, call.gen_iter[i])
    /\ \A r \in DOMAIN output.rows \ {i} : output'.rows[r] = output.rows[r]
    /\ DOMAIN output'.rows = DOMAIN output.rows

\* the join: no row and no substream changes
StepOfJoin ==
    /\ pc' = "returned"
    /\ output' = output
    /\ call' = call
    /\ call.done = DOMAIN output.rows

\* C20: every step of a running parallel generation is the step of exactly
\* one row task that had not run before, writing its own row from its own
\* substream and leaving every other row as it was, or the final join once
\* every task has run; and in every state the substreams of the tasks are
\* pairwise disjoint.
C20_TasksShareNothing ==
    /\ [][(pc = "running" /\ call.core \in ParCores) =>
             \/ \E i \in DOMAIN output.rows : StepOfRowTask(i)
             \/ StepOfJoin]_vars
    /\ []((call.fn # "none" /\ call.core \in ParCores) =>
            \A i \in DOMAIN call.gen_iter : \A j \in DOMAIN call.gen_iter :
                i # j => DisjointSubstreams(call.gen_iter[i], call.gen_iter[j]))

\* three parallel row tasks, of which the first and the last have run
C20_Witness ==
    /\ pc = "running"
    /\ call.core = "par_generate_lwe_bootstrap_key"
    /\ Len(output.rows) = 3
    /\ call.done = {1, 3}

\* C16: splitn_internal called with split type SplitInclusive panics with
\* its message and leaves the caller without an iterator; called with Split
\* or RSplit it builds a SplitNInternal of that split type, for the count
\* asked for, which no next call has advanced yet.
C16_SplitNInclusivePanics ==
    split_call.fn = "splitn_internal" =>
        IF split_call.split_type = "SplitInclusive"
        THEN /\ split_panic = EitherSplitNOrRSplitN
             /\ split_iter = NoIter
        ELSE /\ split_panic = ""
             /\ split_iter.type = "SplitNInternal"
             /\ split_iter.internal.split_type = split_call.split_type
             /\ split_iter.n = split_call.n
             /\ split_log = <<>> =>
                   /\ split_iter.counter = 0
                   /\ split_iter.not_exceeded = (split_call.n.val # 0)

C16_Witness ==
    /\ split_call.fn = "splitn_internal"
    /\ split_call.split_type = "SplitInclusive"
    /\ split_call.n = [kind |-> "Enc", val |-> 2]
    /\ split_panic = EitherSplitNOrRSplitN
    /\ decrypt_ascii(str) = <<1, 2>>

\* C17 as stated: the request for a split without the leading empty
\* string, which is a reverse split, panics and builds no iterator.
C17_LeadingTrimReversePanics ==
    split_call.fn = "split_no_leading" =>
        /\ split_panic # ""
        /\ split_iter = NoIter

\* C17, amended: it is the split without the trailing empty string that
\* panics when asked to split in reverse, and it builds a SplitNoTrailing
\* for Split and SplitInclusive; the split without the leading empty string
\* is always a reverse split and always builds its iterator, a
\* SplitNoLeading over a reverse SplitInternal advanced once.
C17_TrailingTrimReversePanics ==
    /\ split_call.fn = "split_no_trailing" =>
          IF split_call.split_type = "RSplit"
          THEN /\ split_panic = OnlySplitOrSplitInclusive
               /\ split_iter = NoIter
          ELSE /\ split_panic = ""
               /\ split_iter.type = "SplitNoTrailing"
               /\ split_iter.internal.split_type = split_call.split_type
               /\ split_log = <<>> => split_iter.internal.counter = 0
    /\ split_call.fn = "split_no_leading" =>
          /\ split_panic = ""
          /\ split_iter.type = "SplitNoLeading"
          /\ split_iter.internal.split_type = "RSplit"
          /\ split_log = <<>> => split_iter.internal.counter = 1

C17_Witness ==
    /\ split_call.fn = "split_no_trailing"
    /\ split_call.split_type = "RSplit"
    /\ split_panic = OnlySplitOrSplitInclusive
    /\ decrypt_ascii(str) = <<1, 2, 1>>

\* the string and the pattern in clear
StrInClear == decrypt_ascii(str)

PatInClear == decrypt_ascii(trivial_or_enc_pat(pat))

PatternOccurs ==
    \E k \in 0..Len(StrInClear) : MatchesAt(StrInClear, PatInClear, k)

\* the returned halves are what precedes and what follows the occurrence
\* of the pattern at index k
SplitAt(k) ==
    /\ MatchesAt(StrInClear, PatInClear, k)
    /\ decrypt_ascii(split_ret.lhs) = SubSeq(StrInClear, 1, k)
    /\ decrypt_ascii(split_ret.rhs) =
          SubSeq(StrInClear, k + Len(PatInClear) + 1, Len(StrInClear))
    /\ decrypt_ascii(split_ret.lhs) \o PatInClear \o decrypt_ascii(split_ret.rhs)
          = StrInClear

\* C18: the flag split_once and rsplit_once return tells whether the
\* pattern occurs in the string; when it does, split_once returns what
\* precedes and what follows its first occurrence and rsplit_once what
\* precedes and what follows its last occurrence, so that lhs, pattern and
\* rhs put together give the string.
C18_SplitOnceAtFirstAndLastOccurrence ==
    /\ split_ret.fn \in {"split_once", "rsplit_once"} =>
          split_ret.is_match = PatternOccurs
    /\ (split_ret.fn = "split_once" /\ PatternOccurs) =>
          \E k \in 0..Len(StrInClear) :
              /\ SplitAt(k)
              /\ \A j \in 0..(k - 1) : ~MatchesAt(StrInClear, PatInClear, j)
    /\ (split_ret.fn = "rsplit_once" /\ PatternOccurs) =>
          \E k \in 0..Len(StrInClear) :
              /\ SplitAt(k)
              /\ \A j \in (k + 1)..Len(StrInClear) :
                    ~MatchesAt(StrInClear, PatInClear, j)

\* a padded "aba" split at the last "a"
C18_Witness ==
    /\ split_ret.fn = "rsplit_once"
    /\ split_ret.is_match
    /\ str.padded
    /\ StrInClear = <<1, 2, 1>>
    /\ PatInClear = <<1>>
    /\ decrypt_ascii(split_ret.lhs) = <<1, 2>>
    /\ decrypt_ascii(split_ret.rhs) = <<>>

(***************************************************************************)
(* Concurrent calls on different containers.                               *)
(***************************************************************************)
\* what the call of thread t does when nothing else runs: the outcome of
\* the generator on the thread's container and generator as they were when
\* the thread started, and every row of the zip encrypted
GeneratedAlone(t) ==
    LET th == threads[t]
        res == RunCore(th.call.core, input_lwe_secret_key,
                       output_glwe_secret_key, th.call.output0,
                       th.generator0, th.seeder0)
        zip == ZipIndexes(res.output, input_lwe_secret_key, res.gen_iter)
    IN [status |-> res.status,
        panic |-> res.panic,
        rng |-> res.rng,
        output |->
          IF res.status = "panicked" THEN res.output
          ELSE [res.output EXCEPT !.rows =
                  [i \in 1..Len(res.output.rows) |->
                     IF i \in zip
                     THEN RowOfCore(input_lwe_secret_key, output_glwe_secret_key,
                                    res.output, res.gen_iter, i).rows[i]
                     ELSE res.output.rows[i]]]]

\* C21: of two generation calls that run concurrently on different
\* containers, each with its own generator, on the same two secret keys,
\* each has the outcome and produces the key it has when run alone, in every
\* interleaving of their steps: at every moment the rows a call has written
\* are the rows of the key it produces alone, the rows it has not written
\* are as it found them, and the key it returns is that key.
C21_ConcurrentCallsAsAlone ==
    \A t \in DOMAIN threads :
        LET th == threads[t]
            alone == GeneratedAlone(t)
        IN th.pc # "idle" =>
             /\ (th.pc = "panicked") = (alone.status = "panicked")
             /\ th.panic = alone.panic
             /\ (IF th.call.output0.kind = "plain" THEN th.generator ELSE th.seeder)
                   = alone.rng
             /\ th.pc = "panicked" => th.output = th.call.output0
             /\ th.pc = "returned" => th.output = alone.output
             /\ th.pc = "running" =>
                  \A i \in 1..Len(th.output.rows) :
                      th.output.rows[i] =
                          IF i \in th.call.done
                          THEN alone.output.rows[i]
                          ELSE th.call.output0.rows[i]

\* both calls are under way, each with rows written and rows still to write
C21_Witness ==
    /\ DOMAIN threads = ThreadIds
    /\ \A t \in ThreadIds :
          /\ threads[t].pc = "running"
          /\ threads[t].call.done # {}
          /\ ThreadPending(t) # {}
    /\ threads[1].call.core = "par_generate_lwe_bootstrap_key"
    /\ threads[2].call.core = "par_generate_lwe_bootstrap_key"
    /\ threads[1].output # threads[2].output

(***************************************************************************)
(* The seeder in a seeded allocate-and-generate call.                      *)
(***************************************************************************)
\* the substreams of the stream created from the compression seed of the
\* container
SubstreamsOfStoredSeed ==
    try_fork_from_config(StreamFromSeed(output.compression_seed),
                         encryption_fork_config(output)).children

PatIsEmpty == PatInClear = <<>>

\* what the k-th next call on the caller's iterator returned, in clear
Piece(k) == decrypt_ascii(split_log[k].result)

\* C23: for an empty pattern the iterator built by split_internal over a
\* string of L characters returns Some on its first L + 2 next calls and
\* None on every later one; the pieces are the empty string, then the
\* characters of the string one per call (from the last to the first for a
\* reverse split), then the empty string.
C23_EmptyPatternYieldsEveryChar ==
    (split_call.fn = "split_internal" /\ PatIsEmpty) =>
        LET L == Len(StrInClear)
        IN \A k \in 1..Len(split_log) :
              /\ split_log[k].is_some = (k <= L + 2)
              /\ k <= L + 2 =>
                    Piece(k) =
                        IF k = 1 \/ k = L + 2 THEN <<>>
                        ELSE IF split_call.split_type = "RSplit"
                        THEN <<StrInClear[L + 2 - k]>>
                        ELSE <<StrInClear[k - 1]>>

\* "ab" split on "": four pieces and then None
C23_Witness ==
    /\ split_call.fn = "split_internal"
    /\ split_call.split_type = "Split"
    /\ pat = [kind |-> "Clear", str |-> <<>>]
    /\ str = FheString_new(<<1, 2>>, 0)
    /\ Len(split_log) = 5
    /\ \A k \in 1..4 : split_log[k].is_some
    /\ ~split_log[5].is_some
    /\ <<Piece(1), Piece(2), Piece(3), Piece(4)>> = << <<>>, <<1>>, <<2>>, <<>> >>

\* the iterator after the k-th next call
After(k) == IF k < Len(split_log) THEN split_log[k + 1].self ELSE split_iter

\* the search of the k-th next call of a SplitInternal found the pattern
Found(k) == After(k).prev_was_some

\* C24: for a non-empty pattern, the first next call of a SplitInternal
\* whose search finds no match returns the whole state it started from,
\* flagged Some, the calls before it (whose searches matched) are flagged
\* Some, and every call after it is flagged None; for any pattern no call
\* is flagged Some after a call flagged None.
C24_SomeFlagsFormPrefix ==
    split_call.fn = "split_internal" =>
        \A k \in 1..Len(split_log) :
            /\ ~PatIsEmpty =>
                  /\ Found(k) => split_log[k].is_some
                  /\ (~Found(k) /\ \A j \in 1..(k - 1) : Found(j)) =>
                        /\ split_log[k].is_some
                        /\ Piece(k) = decrypt_ascii(split_log[k].self.state)
                  /\ (\E j \in 1..(k - 1) : ~Found(j)) => ~split_log[k].is_some
            /\ (k > 1 /\ ~split_log[k - 1].is_some) => ~split_log[k].is_some

\* "121" split on "2": a match, then the rest of the string wrapped in
\* Some by a call that finds nothing, then None
C24_Witness ==
    /\ split_call.fn = "split_internal"
    /\ split_call.split_type = "Split"
    /\ PatInClear = <<2>>
    /\ StrInClear = <<1, 2, 1>>
    /\ Len(split_log) = 4
    /\ Found(1) /\ ~Found(2)
    /\ split_log[1].is_some /\ split_log[2].is_some
    /\ ~split_log[3].is_some /\ ~split_log[4].is_some
    /\ Piece(2) = <<1>>

\* the caller holds a SplitNInternal for a count given in clear
SplitNWithClearCount ==
    /\ split_call.fn = "splitn_internal"
    /\ split_panic = ""
    /\ split_call.n.kind = "Clear"

\* C25: a SplitNInternal for a clear count n flags at most n next calls
\* Some, none when n is 0; from its n-th call on it returns the state the
\* iterator held before the call, whole; and every call after the n-th is
\* flagged None.
C25_SplitNStopsAtCount ==
    SplitNWithClearCount =>
        LET n == split_call.n.val
        IN /\ Cardinality({ k \in 1..Len(split_log) : split_log[k].is_some }) <= n
           /\ n = 0 => \A k \in 1..Len(split_log) : ~split_log[k].is_some
           /\ \A k \in 1..Len(split_log) :
                 /\ k >= n => split_log[k].result = split_log[k].self.internal.state
                 /\ k > n => ~split_log[k].is_some

\* "212" split on "2" with n = 2: the empty piece, then all of "12" where
\* the split without a count returns "1", then None
C25_Witness ==
    /\ SplitNWithClearCount
    /\ split_call.n.val = 2
    /\ split_call.split_type = "Split"
    /\ StrInClear = <<2, 1, 2>>
    /\ PatInClear = <<2>>
    /\ Len(split_log) = 3
    /\ split_log[1].is_some /\ split_log[2].is_some /\ ~split_log[3].is_some
    /\ Piece(1) = <<>>
    /\ Piece(2) = <<1, 2>>
    /\ decrypt_ascii(SplitInternal_next(split_log[2].self.internal).result) = <<1>>

\* what k next calls return on iterator iter
RECURSIVE Replay(_, _)
Replay(iter, k) ==
    IF k = 0 THEN <<>>
    ELSE LET r == FheStringIterator_next(iter)
         IN <<[result |-> r.result, is_some |-> r.is_some]>>
                \o Replay(r.self, k - 1)

\* the caller holds a SplitNInternal for an encrypted count
SplitNWithEncryptedCount ==
    /\ split_call.fn = "splitn_internal"
    /\ split_panic = ""
    /\ split_call.n.kind = "Enc"

\* the next calls made so far, made on the SplitNInternal that
\* splitn_internal builds for the same count given in clear
WithClearCount ==
    Replay(splitn_internal(str, pat,
                           [kind |-> "Clear", val |-> split_call.n.val],
                           split_call.split_type).iter,
           Len(split_log))

\* C26: a SplitNInternal for an encrypted count n returns on every next
\* call the flag that the SplitNInternal for the clear count n returns on
\* that call, and on every call flagged Some the same string.
C26_EncryptedCountAsClearCount ==
    SplitNWithEncryptedCount =>
        LET clear == WithClearCount
        IN \A k \in 1..Len(split_log) :
              /\ split_log[k].is_some = clear[k].is_some
              /\ split_log[k].is_some =>
                    Piece(k) = decrypt_ascii(clear[k].result)

\* "212" rsplit on "2" with an encrypted 2: the empty piece, then all of
\* "21", then None
C26_Witness ==
    /\ SplitNWithEncryptedCount
    /\ split_call.n.val = 2
    /\ split_call.split_type = "RSplit"
    /\ StrInClear = <<2, 1, 2>>
    /\ PatInClear = <<2>>
    /\ Len(split_log) = 3
    /\ split_log[1].is_some /\ split_log[2].is_some /\ ~split_log[3].is_some
    /\ Piece(2) = <<2, 1>>

\* the next calls made so far and one more, made on the reverse split that
\* split_internal builds over the same string and pattern
UnderlyingReverseSplit ==
    Replay(split_internal(str, pat, "RSplit"), Len(split_log) + 1)

SplitNoTrailingBuilt == split_call.fn = "split_no_trailing" /\ split_panic = ""

\* the next calls made so far, made on the SplitInternal that
\* split_no_trailing wraps
UnderlyingSplit ==
    Replay(split_no_trailing(str, pat, split_call.split_type).iter.internal,
           Len(split_log))

\* the same calls on the iterator split_internal builds
SplitWithTrailing ==
    Replay(split_internal(str, pat, split_call.split_type), Len(split_log))

\* C28: every next call of SplitNoTrailing returns the piece the
\* underlying SplitInternal returns on that call; its flag is None when
\* the piece is empty and the search of the call found no match (the piece
\* is the remaining state, a trailing empty string), and the underlying
\* flag otherwise.  For a non-empty pattern the underlying SplitInternal
\* returns what the iterator built by split_internal returns.
C28_TrailingEmptyPieceDropped ==
    SplitNoTrailingBuilt =>
        LET under == UnderlyingSplit
        IN /\ \A k \in 1..Len(split_log) :
                 /\ split_log[k].result = under[k].result
                 /\ split_log[k].is_some =
                       IF Piece(k) = <<>> /\ ~After(k).internal.prev_was_some
                       THEN FALSE
                       ELSE under[k].is_some
           /\ ~PatIsEmpty => under = SplitWithTrailing

\* "12" split on "2": "1", then the empty rest of the string, which the
\* underlying split flags Some and SplitNoTrailing None
C28_Witness ==
    /\ SplitNoTrailingBuilt
    /\ split_call.split_type = "Split"
    /\ StrInClear = <<1, 2>>
    /\ PatInClear = <<2>>
    /\ Len(split_log) = 2
    /\ split_log[1].is_some
    /\ Piece(1) = <<1>>
    /\ Piece(2) = <<>>
    /\ UnderlyingSplit[2].is_some
    /\ ~split_log[2].is_some

(***************************************************************************)
(* The short cuts of split_once and rsplit_once.                           *)
(***************************************************************************)
\* what the lengths of the caller's string and pattern decide
LengthChecks == length_checks(str, trivial_or_enc_pat(pat))

\* the triple split_once or rsplit_once returned
ReturnedTriple == <<split_ret.lhs, split_ret.rhs, split_ret.is_match>>

\* C29: when the length checks decide, split_once and rsplit_once return
\* without a search.  A pattern the checks find empty: split_once returns
\* (empty, str, true), rsplit_once (str, empty, true).  Lengths that rule
\* out a match: both return (empty, str, false).  An empty string with a
\* padded pattern: both return two empty strings and the encrypted flag,
\* which tells whether the pattern is empty.  The checks are right in each
\* case, and whatever they decide an empty pattern gives, in clear,
\* ("", str, true) and (str, "", true), and an empty string two empty
\* strings.
C29_LengthChecksShortCircuit ==
    split_ret.fn \in {"split_once", "rsplit_once"} =>
        /\ (LengthChecks.kind = "Clear" /\ LengthChecks.val) =>
              /\ PatIsEmpty
              /\ ReturnedTriple =
                    IF split_ret.fn = "split_once"
                    THEN <<FheString_empty, str, TRUE>>
                    ELSE <<str, FheString_empty, TRUE>>
        /\ (LengthChecks.kind = "Clear" /\ ~LengthChecks.val) =>
              /\ ~PatternOccurs
              /\ ReturnedTriple = <<FheString_empty, str, FALSE>>
        /\ LengthChecks.kind = "Cipher" =>
              /\ StrInClear = <<>>
              /\ ReturnedTriple = <<FheString_empty, FheString_empty, PatIsEmpty>>
        /\ PatIsEmpty =>
              <<decrypt_ascii(split_ret.lhs), decrypt_ascii(split_ret.rhs),
                split_ret.is_match>> =
                    IF split_ret.fn = "split_once"
                    THEN << <<>>, StrInClear, TRUE >>
                    ELSE << StrInClear, <<>>, TRUE >>
        /\ StrInClear = <<>> =>
              /\ decrypt_ascii(split_ret.lhs) = <<>>
              /\ decrypt_ascii(split_ret.rhs) = <<>>

\* rsplit_once of a padded "12" on the empty pattern: the string itself
\* and the empty string, without a search
C29_Witness ==
    /\ split_ret.fn = "rsplit_once"
    /\ pat = [kind |-> "Clear", str |-> <<>>]
    /\ str = FheString_new(<<1, 2>>, 1)
    /\ LengthChecks = [kind |-> "Clear", val |-> TRUE]
    /\ ReturnedTriple = <<str, FheString_empty, TRUE>>

(***************************************************************************)
(* Padding of the substrings.                                              *)
(***************************************************************************)
\* the string is marked padded and ends with a null
IsPadded(s) ==
    /\ s.padded
    /\ s.chars # <<>>
    /\ s.chars[Len(s.chars)] = 0

\* the string that the SplitInternal of an iterator still has to split
RemainingState(iter) ==
    IF iter.type = "SplitInternal" THEN iter.state ELSE iter.internal.state

\* the indexes a search can return, and one past them
SplitIndexes == 0..(MaxStrLen + MaxPadding + 1)

\* C30: whatever the string, the pattern, the index and the inclusive flag,
\* both substrings returned by split_pat_at_index are padded: for a padded
\* string they keep its length and are marked padded, for an unpadded one
\* they are one null longer; and after its first next call the state of
\* every split iterator is padded, as is every substring split off its
\* state afterwards.
C30_SubstringsAlwaysPadded ==
    /\ \A index \in SplitIndexes, inclusive \in BOOLEAN :
          LET sp == split_pat_at_index(str, pat, index, inclusive)
              length == Len(str.chars) + (IF str.padded THEN 0 ELSE 1)
          IN /\ IsPadded(sp.lhs) /\ IsPadded(sp.rhs)
             /\ Len(sp.lhs.chars) = length /\ Len(sp.rhs.chars) = length
             /\ ~str.padded => /\ sp.lhs.chars[length] = 0
                               /\ sp.rhs.chars[length] = 0
    /\ (split_iter # NoIter /\ split_log # <<>>) =>
          /\ IsPadded(RemainingState(split_iter))
          /\ \A k \in 2..Len(split_log) :
                IsPadded(RemainingState(split_log[k].self))
          /\ \A index \in SplitIndexes, inclusive \in BOOLEAN :
                LET sp == split_pat_at_index(RemainingState(split_iter), pat,
                                             index, inclusive)
                IN IsPadded(sp.lhs) /\ IsPadded(sp.rhs)

\* the unpadded "12" split on "2": before the first next call the state
\* is the unpadded string, after it the padded rest
C30_Witness ==
    /\ split_call.fn = "split_internal"
    /\ split_call.split_type = "Split"
    /\ str = FheString_new(<<1, 2>>, 0)
    /\ PatInClear = <<2>>
    /\ Len(split_log) = 1
    /\ ~IsPadded(split_log[1].self.state)
    /\ IsPadded(split_iter.state)
    /\ Len(split_iter.state.chars) = 3

====
